---- MODULE Spec2Model ----
(***************************************************************************)
(* A model of translate-java-property-files: the .properties parser and    *)
(* serializer, the key synchronizer, placeholder parity and per-key        *)
(* validation, change detection against the translation key ledger, the    *)
(* ledger's load and save, and the per-file pipeline of                    *)
(* process_translation_queue.                                              *)
(*                                                                         *)
(* Text is a sequence of one-character tokens.  Each component keeps its   *)
(* state in one record variable; a specification drives one component and  *)
(* leaves the others idle.                                                 *)
(***************************************************************************)
EXTENDS Integers, Sequences, FiniteSets, TLC

VARIABLES parser, sync, validator, extraction, ledger_io, queue

vars == <<parser, sync, validator, extraction, ledger_io, queue>>

Idle == [pc |-> "idle"]

----------------------------------------------------------------------------
(* Characters.  NL is the line feed, BS the backslash, SP the space (the   *)
(* one whitespace character of the model besides NL).                      *)
NL == "NL"
BS == "BS"
SP == "SP"

\* str.isspace() / regex \s on one character
isspace(c) == c \in {SP, NL}

Min(S) == CHOOSE x \in S : \A y \in S : x <= y
Max(S) == CHOOSE x \in S : \A y \in S : x >= y

\* s[i:] of Python for a 1-based i
From(s, i) == SubSeq(s, i, Len(s))

\* str.lstrip()
lstrip(s) ==
    LET I == {i \in 1..Len(s) : ~isspace(s[i])}
    IN  IF I = {} THEN <<>> ELSE From(s, Min(I))

\* str.rstrip()
rstrip(s) ==
    LET I == {i \in 1..Len(s) : ~isspace(s[i])}
    IN  IF I = {} THEN <<>> ELSE SubSeq(s, 1, Max(I))

\* str.strip()
strip(s) == lstrip(rstrip(s))

\* str.rstrip('\n')
rstrip_nl(s) ==
    LET I == {i \in 1..Len(s) : s[i] # NL}
    IN  IF I = {} THEN <<>> ELSE SubSeq(s, 1, Max(I))

\* pat in s
contains(s, pat) ==
    \E i \in 1..(Len(s) - Len(pat) + 1) : SubSeq(s, i, i + Len(pat) - 1) = pat

\* str.replace(pat, rep): leftmost, non-overlapping occurrences
RECURSIVE replace(_, _, _)
replace(s, pat, rep) ==
    IF Len(s) < Len(pat) \/ Len(pat) = 0 THEN s
    ELSE IF SubSeq(s, 1, Len(pat)) = pat
         THEN rep \o replace(From(s, Len(pat) + 1), pat, rep)
         ELSE <<s[1]>> \o replace(Tail(s), pat, rep)

\* str.split(c) for a one-character separator
RECURSIVE split(_, _)
split(s, c) ==
    LET I == {i \in 1..Len(s) : s[i] = c}
    IN  IF I = {} THEN <<s>>
        ELSE <<SubSeq(s, 1, Min(I) - 1)>> \o split(From(s, Min(I) + 1), c)

\* sep.join(parts)
RECURSIVE join(_, _)
join(sep, parts) ==
    IF parts = <<>> THEN <<>>
    ELSE IF Len(parts) = 1 THEN parts[1]
    ELSE parts[1] \o sep \o join(sep, Tail(parts))

\* file.readlines(): the lines of a text, each with its line feed
RECURSIVE readlines(_)
readlines(s) ==
    LET I == {i \in 1..Len(s) : s[i] = NL}
    IN  IF s = <<>> THEN <<>>
        ELSE IF I = {} THEN <<s>>
        ELSE <<SubSeq(s, 1, Min(I))>> \o readlines(From(s, Min(I) + 1))

\* the number of consecutive backslashes that end s
trailing_backslashes(s) ==
    LET I == {i \in 1..Len(s) : s[i] # BS}
    IN  IF I = {} THEN Len(s) ELSE Len(s) - Max(I)

----------------------------------------------------------------------------
(* properties_parser.py                                                    *)

has_unescaped_trailing_backslash(s) ==
    trailing_backslashes(s) % 2 = 1

\* a search that takes the first ':' or '=' whatever precedes it
find_separator_ignoring_backslashes(line) ==
    LET I == {j \in 1..Len(line) : line[j] \in {":", "="}}
    IN  IF I = {} THEN 0 ELSE Min(I)

\* the first ':' or '=' preceded by an even number of backslashes (0: none)
find_separator(line) ==
    LET I == {j \in 1..Len(line) :
                 /\ line[j] \in {":", "="}
                 /\ trailing_backslashes(SubSeq(line, 1, j - 1)) % 2 = 0}
    IN  IF I = {} THEN 0 ELSE Min(I)

\* re.sub(r'\\([:=\s])', r'\1', s)
RECURSIVE unescape_key(_)
unescape_key(s) ==
    IF s = <<>> THEN <<>>
    ELSE IF Len(s) >= 2 /\ s[1] = BS /\ (s[2] \in {":", "="} \/ isspace(s[2]))
         THEN <<s[2]>> \o unescape_key(From(s, 3))
         ELSE <<s[1]>> \o unescape_key(Tail(s))

\* the loop over continuation lines; i is the 1-based index of the line
\* the value started on.  Returns the joined value, the raw fragments and
\* the index of the next line to parse.
RECURSIVE continuation(_, _, _, _, _)
continuation(lines, value, fragments, multi, i) ==
    IF has_unescaped_trailing_backslash(value)
    THEN IF i + 1 <= Len(lines)
         THEN LET next_line == rstrip_nl(lines[i + 1])
              IN  continuation(lines,
                               SubSeq(value, 1, Len(value) - 1) \o lstrip(next_line),
                               fragments \o next_line, TRUE, i + 1)
         ELSE [value |-> SubSeq(value, 1, Len(value) - 1),
               original_value |-> fragments, was_multiline |-> TRUE, next |-> i + 1]
    ELSE [value |-> value, original_value |-> fragments,
          was_multiline |-> multi, next |-> i + 1]

comment_or_blank(raw) == [type |-> "comment_or_blank", content |-> raw]

entry(key, value, original_value, line_number, was_multiline, separator_group) ==
    [type |-> "entry", key |-> key, value |-> value,
     original_value |-> original_value, line_number |-> line_number,
     was_multiline |-> was_multiline, separator_group |-> separator_group]

RECURSIVE parse_from(_, _)
parse_from(lines, i) ==
    IF i > Len(lines) THEN <<>>
    ELSE
    LET line == rstrip_nl(lines[i])
        stripped_line == lstrip(line)
    IN  IF stripped_line = <<>> \/ stripped_line[1] \in {"#", "!"}
        THEN <<comment_or_blank(lines[i])>> \o parse_from(lines, i + 1)
        ELSE
        LET sep_index == find_separator(line)
        IN  IF sep_index # 0
            THEN
            LET start_sep_group ==
                    Min({j \in 1..sep_index :
                            \A k \in j..(sep_index - 1) : isspace(line[k])})
                end_sep_group ==
                    Max({j \in sep_index..Len(line) :
                            \A k \in (sep_index + 1)..j : isspace(line[k])})
                key_raw == SubSeq(line, 1, start_sep_group - 1)
                separator_group == SubSeq(line, start_sep_group, end_sep_group)
                value == From(line, end_sep_group + 1)
                key == unescape_key(strip(key_raw))
                c == continuation(lines, value, value, FALSE, i)
            IN  <<entry(key, c.value, c.original_value, i - 1,
                        c.was_multiline, separator_group)>>
                \o parse_from(lines, c.next)
            ELSE
            LET key == replace(replace(replace(strip(line),
                                   <<BS, "=">>, <<"=">>),
                                   <<BS, ":">>, <<":">>),
                                   <<BS, BS>>, <<BS>>)
            IN  IF key # <<>>
                THEN <<entry(key, <<>>, <<>>, i - 1, FALSE, <<"=">>)>>
                     \o parse_from(lines, i + 1)
                ELSE <<comment_or_blank(lines[i])>> \o parse_from(lines, i + 1)

\* the parsed lines of a file's text
parse_properties_file(text) == parse_from(readlines(text), 1)

\* the translations dictionary of parse_properties_file: the last entry of
\* a key wins
translations_of(lines) ==
    LET K == {lines[i].key : i \in {j \in 1..Len(lines) : lines[j].type = "entry"}}
    IN  [k \in K |->
            lines[Max({i \in 1..Len(lines) :
                          lines[i].type = "entry" /\ lines[i].key = k})].value]

reassemble_line(item) ==
    IF item.type = "entry"
    THEN IF contains(item.original_value, <<BS, "n">>)
         THEN item.key \o item.separator_group
              \o replace(item.value, <<NL>>, <<BS, "n">>) \o <<NL>>
         ELSE IF contains(item.value, <<NL>>) \/ item.was_multiline
         THEN item.key \o item.separator_group
              \o join(<<BS, NL>>, split(item.value, NL)) \o <<NL>>
         ELSE item.key \o item.separator_group \o item.value \o <<NL>>
    ELSE item.content

RECURSIVE reassemble_file(_)
reassemble_file(parsed_lines) ==
    IF parsed_lines = <<>> THEN <<>>
    ELSE reassemble_line(parsed_lines[1]) \o reassemble_file(Tail(parsed_lines))

----------------------------------------------------------------------------
(* The parser specification: a text is written to a file, parsed, and      *)
(* reassembled with no value changed in between.                           *)

MaxTextLen == 5
Alphabet == {"a", "n", "=", ":", BS, SP, NL, "#"}

RECURSIVE Texts(_, _)
Texts(A, n) ==
    IF n = 0 THEN {<<>>}
    ELSE LET T == Texts(A, n - 1)
         IN  T \cup {Append(t, c) : t \in {u \in T : Len(u) = n - 1}, c \in A}

ParserInit ==
    \E t \in Texts(Alphabet, MaxTextLen) :
        parser = [pc |-> "file", text |-> t, parsed_lines |-> <<>>, content |-> <<>>]

Parse ==
    /\ parser.pc = "file"
    /\ parser' = [parser EXCEPT !.pc = "parsed",
                                !.parsed_lines = parse_properties_file(parser.text)]

Reassemble ==
    /\ parser.pc = "parsed"
    /\ parser' = [parser EXCEPT !.pc = "reassembled",
                                !.content = reassemble_file(parser.parsed_lines)]

SpecParserInit ==
    /\ ParserInit
    /\ sync = Idle /\ validator = Idle /\ extraction = Idle
    /\ ledger_io = Idle /\ queue = Idle

SpecParserNext ==
    \/ Parse /\ UNCHANGED <<sync, validator, extraction, ledger_io, queue>>
    \/ Reassemble /\ UNCHANGED <<sync, validator, extraction, ledger_io, queue>>

SpecParser == SpecParserInit /\ [][SpecParserNext]_vars

\* C1: reassembling the parse of a text in which no value was changed gives
\* back exactly the text.
RoundTripFidelity ==
    parser.pc = "reassembled" => parser.content = parser.text

\* the physical lines of the text that the k-th parsed item was read from:
\* an entry starts at its line_number and ends before the next item, a
\* comment or blank item is one line
LinesOf(k) ==
    LET lines == readlines(parser.text)
        later == {m \in (k + 1)..Len(parser.parsed_lines) :
                     parser.parsed_lines[m].type = "entry"}
        first == parser.parsed_lines[k].line_number + 1
        last == IF later = {} THEN Len(lines) - (Len(parser.parsed_lines) - k)
                ELSE parser.parsed_lines[Min(later)].line_number
                         - (Min(later) - k - 1)
    IN  SubSeq(lines, first, last)

\* C19: an unchanged entry whose value spans several physical lines through
\* backslash continuation is written by reassemble_file in the same
\* continuation form: the same physical lines, with the continuation
\* backslashes and the line breaks where the input had them.
ContinuationFidelity ==
    parser.pc = "reassembled" =>
        \A k \in 1..Len(parser.parsed_lines) :
            (parser.parsed_lines[k].type = "entry" /\ Len(LinesOf(k)) >= 2)
                => rstrip_nl(reassemble_line(parser.parsed_lines[k]))
                      = rstrip_nl(join(<<>>, LinesOf(k)))

\* the positions of a line that hold ':' or '=' after an even number
\* (zero included) of consecutive backslashes
UnescapedSeparators(line) ==
    {j \in 1..Len(line) :
        /\ line[j] \in {":", "="}
        /\ \E n \in 0..(j - 1) :
              /\ n % 2 = 0
              /\ \A i \in (j - n)..(j - 1) : line[i] = BS
              /\ (j - n - 1 >= 1 => line[j - n - 1] # BS)}

\* the first physical lines of the entries of the text, with the entry
\* parsed from each
EntryLines ==
    {<<rstrip_nl(readlines(parser.text)[parser.parsed_lines[k].line_number + 1]), parser.parsed_lines[k]>> :
        k \in {m \in 1..Len(parser.parsed_lines) : parser.parsed_lines[m].type = "entry"}}

\* C20: for every entry line the separator the parser takes is the
\* leftmost ':' or '=' preceded by an even number of consecutive
\* backslashes: the key is what stands before it and its white space,
\* stripped and unescaped, and the separator group is that character with
\* the white space around it; a ':' or '=' after an odd number of
\* backslashes is never the separator and stays in the key.
SeparatorByBackslashParity ==
    parser.pc \in {"parsed", "reassembled"} =>
        \A e \in EntryLines :
            LET line == e[1]
                item == e[2]
                seps == UnescapedSeparators(line)
            IN  IF seps = {}
                THEN /\ item.separator_group = <<"=">>
                     /\ item.value = <<>>
                     /\ \A i \in 1..Len(line) :
                           line[i] \in {":", "="}
                               => \E p \in 1..Len(item.key) : item.key[p] = line[i]
                ELSE LET j == Min(seps)
                         before == rstrip(SubSeq(line, 1, j - 1))
                         after == lstrip(From(line, j + 1))
                     IN  /\ item.key = unescape_key(strip(before))
                         /\ item.separator_group
                               = SubSeq(line, Len(before) + 1, Len(line) - Len(after))
                         /\ \A i \in 1..(j - 1) :
                               (line[i] \in {":", "="} /\ i \notin seps)
                                   => \E p \in 1..Len(item.key) : item.key[p] = line[i]

\* C20 witness: a line whose first ':' or '=' is escaped and which has an
\* unescaped one further right, parsed as one key that holds the escaped
\* character.
SeparatorByBackslashParityWitness ==
    /\ parser.pc = "parsed"
    /\ \E e \in EntryLines :
          /\ UnescapedSeparators(e[1]) # {}
          /\ \E i \in 1..(Min(UnescapedSeparators(e[1])) - 1) : e[1][i] \in {":", "="}
          /\ \E p \in 1..Len(e[2].key) : e[2].key[p] \in {":", "="}

----------------------------------------------------------------------------
(* translation_validator.py: key coverage and key synchronization.         *)
(* Positions are the 0-based list indices of the code; at0(s, i) is s[i].  *)

at0(s, i) == s[i + 1]

\* list.insert(i, x)
insert(s, i, x) ==
    IF i >= Len(s) THEN Append(s, x)
    ELSE SubSeq(s, 1, i) \o <<x>> \o From(s, i + 1)

SelectSeqIdx(s, I) ==
    LET F[i \in 0..Len(s)] ==
            IF i = 0 THEN <<>>
            ELSE IF i \in I THEN Append(F[i - 1], s[i]) ELSE F[i - 1]
    IN  F[Len(s)]

is_entry(line) == line.type = "entry"

\* {line['key']: idx for idx, line in enumerate(lines) if entry}: the last
\* index of each key
entry_index_map(lines) ==
    LET K == {lines[i].key : i \in {j \in 1..Len(lines) : is_entry(lines[j])}}
    IN  [k \in K |->
            Max({i \in 1..Len(lines) : is_entry(lines[i]) /\ lines[i].key = k}) - 1]

\* [line['key'] for line in lines if entry]
key_order(lines) ==
    LET E == SelectSeqIdx(lines, {i \in 1..Len(lines) : is_entry(lines[i])})
    IN  [i \in 1..Len(E) |-> E[i].key]

check_key_coverage(base_keys, target_keys) ==
    [missing_keys |-> base_keys \ target_keys,
     extra_keys |-> target_keys \ base_keys]

\* any(line.type != 'entry' for line in lines[lo:hi]) with 0-based lo, hi
has_non_entry_between(lines, lo, hi) ==
    \E i \in lo..(hi - 1) : i < Len(lines) /\ ~is_entry(at0(lines, i))

\* the insertion index without the adjustment for comment and blank lines:
\* directly before the next anchor, else directly after the previous one
find_insertion_index_ignoring_comments(key, source_key_order, source_parsed_lines, source_line_index_by_key, final_parsed_lines) ==
    LET source_idx ==
            Max({i \in 1..Len(source_key_order) : source_key_order[i] = key}) - 1
        target_entry_index_map == entry_index_map(final_parsed_lines)
        in_target(k) == k \in DOMAIN target_entry_index_map
        Nexts == {i \in (source_idx + 1)..(Len(source_key_order) - 1) :
                     in_target(at0(source_key_order, i))}
        Prevs == {i \in 0..(source_idx - 1) : in_target(at0(source_key_order, i))}
    IN  IF Nexts # {}
        THEN target_entry_index_map[at0(source_key_order, Min(Nexts))]
        ELSE IF Prevs # {}
        THEN target_entry_index_map[at0(source_key_order, Max(Prevs))] + 1
        ELSE Len(final_parsed_lines)

find_insertion_index_for_missing_key(key, source_key_order, source_parsed_lines, source_line_index_by_key, final_parsed_lines) ==
    LET source_idx ==
            Max({i \in 1..Len(source_key_order) : source_key_order[i] = key}) - 1
        target_entry_index_map == entry_index_map(final_parsed_lines)
        in_target(k) == k \in DOMAIN target_entry_index_map
        \* 0-based positions in source_key_order of the anchors
        Nexts == {i \in (source_idx + 1)..(Len(source_key_order) - 1) :
                     in_target(at0(source_key_order, i))}
        Prevs == {i \in 0..(source_idx - 1) : in_target(at0(source_key_order, i))}
        key_line_idx == source_line_index_by_key[key]
    IN  IF Nexts # {}
        THEN LET next_key == at0(source_key_order, Min(Nexts))
                 at == target_entry_index_map[next_key]
                 next_key_line_idx == source_line_index_by_key[next_key]
             IN  IF has_non_entry_between(source_parsed_lines,
                                          key_line_idx + 1, next_key_line_idx)
                 THEN Min({j \in 0..at :
                             \A k \in j..(at - 1) :
                                 ~is_entry(at0(final_parsed_lines, k))})
                 ELSE at
        ELSE IF Prevs # {}
        THEN LET prev_key == at0(source_key_order, Max(Prevs))
                 at == target_entry_index_map[prev_key] + 1
                 prev_key_line_idx == source_line_index_by_key[prev_key]
             IN  IF has_non_entry_between(source_parsed_lines,
                                          prev_key_line_idx + 1, key_line_idx)
                 THEN Max({j \in at..Len(final_parsed_lines) :
                             \A k \in at..(j - 1) :
                                 ~is_entry(at0(final_parsed_lines, k))})
                 ELSE at
        ELSE Len(final_parsed_lines)

\* the loop of synchronize_keys over source_key_order, from its i-th key on
RECURSIVE add_missing_keys(_, _, _, _, _)
add_missing_keys(i, missing_keys, source_parsed_lines, source_translations, final_parsed_lines) ==
    LET source_key_order == key_order(source_parsed_lines)
    IN  IF i > Len(source_key_order) THEN final_parsed_lines
        ELSE
        LET key == source_key_order[i]
            source_line_index_by_key == entry_index_map(source_parsed_lines)
            source_entry == at0(source_parsed_lines, source_line_index_by_key[key])
            insertion_index ==
                find_insertion_index_for_missing_key(
                    key, source_key_order, source_parsed_lines,
                    source_line_index_by_key, final_parsed_lines)
        IN  IF key \notin missing_keys
            THEN add_missing_keys(i + 1, missing_keys, source_parsed_lines,
                                  source_translations, final_parsed_lines)
            ELSE add_missing_keys(i + 1, missing_keys, source_parsed_lines,
                                  source_translations,
                     insert(final_parsed_lines, insertion_index,
                            entry(key, source_translations[key],
                                  source_translations[key],
                                  source_entry.line_number,
                                  source_entry.was_multiline,
                                  source_entry.separator_group)))

\* the line sequence synchronize_keys builds from the two parsed files
synchronized_lines(target_parsed_lines, source_parsed_lines) ==
    LET source_translations == translations_of(source_parsed_lines)
        target_translations == translations_of(target_parsed_lines)
        cov == check_key_coverage(DOMAIN source_translations,
                                  DOMAIN target_translations)
        kept == SelectSeqIdx(target_parsed_lines,
                    {i \in 1..Len(target_parsed_lines) :
                        ~(is_entry(target_parsed_lines[i])
                          /\ target_parsed_lines[i].key \in cov.extra_keys)})
    IN  add_missing_keys(1, cov.missing_keys, source_parsed_lines,
                         source_translations, kept)

\* synchronize_keys on the texts of the two files: what it returns, the
\* target file's text afterwards, and whether the file was written
synchronize_keys(target_text, source_text) ==
    LET target_parsed_lines == parse_properties_file(target_text)
        source_parsed_lines == parse_properties_file(source_text)
        cov == check_key_coverage(DOMAIN translations_of(source_parsed_lines),
                                  DOMAIN translations_of(target_parsed_lines))
    IN  IF cov.missing_keys = {} /\ cov.extra_keys = {}
        THEN [missing_keys |-> {}, extra_keys |-> {},
              target_text |-> target_text, written |-> FALSE]
        ELSE [missing_keys |-> cov.missing_keys, extra_keys |-> cov.extra_keys,
              target_text |->
                  reassemble_file(synchronized_lines(target_parsed_lines,
                                                     source_parsed_lines)),
              written |-> TRUE]

----------------------------------------------------------------------------
(* The synchronizer specification: a source file and a target file, each a *)
(* few lines drawn from LineForms, and two calls of synchronize_keys.      *)

MaxSourceLines == 3
MaxTargetLines == 2

SourceLineForms ==
    { <<"a", "=", "a", NL>>,
      <<"n", SP, "=", SP, "a", NL>>,
      <<"a", "n", ":", "a", NL>>,
      <<"#", NL>>,
      <<"a", BS, "=", "n", "=", "a", NL>> }

TargetLineForms ==
    { <<"a", "=", "n", NL>>,
      <<"n", "=", "n", NL>>,
      <<"#", "#", NL>>,
      <<"=", "n", NL>>,
      <<"a", BS, "=", "n", "=", "n", NL>> }

RECURSIVE Files(_, _)
Files(forms, n) ==
    IF n = 0 THEN {<<>>}
    ELSE LET T == Files(forms, n - 1)
         IN  T \cup {l \o t : l \in forms, t \in T}

keys_of_text(text) == DOMAIN translations_of(parse_properties_file(text))

SyncInit ==
    \E s \in Files(SourceLineForms, MaxSourceLines),
       t \in Files(TargetLineForms, MaxTargetLines) :
        sync = [pc |-> "files", source |-> s, target_before |-> t, target |-> t,
                first |-> <<>>, second |-> <<>>]

Synchronize ==
    /\ sync.pc = "files"
    /\ LET r == synchronize_keys(sync.target, sync.source)
       IN  sync' = [sync EXCEPT !.pc = "synchronized",
                                !.target = r.target_text,
                                !.first = r]

SynchronizeAgain ==
    /\ sync.pc = "synchronized"
    /\ LET r == synchronize_keys(sync.target, sync.source)
       IN  sync' = [sync EXCEPT !.pc = "resynchronized",
                                !.target = r.target_text,
                                !.second = r]

SpecSyncInit ==
    /\ SyncInit
    /\ parser = Idle /\ validator = Idle /\ extraction = Idle
    /\ ledger_io = Idle /\ queue = Idle

SpecSyncNext ==
    \/ Synchronize /\ UNCHANGED <<parser, validator, extraction, ledger_io, queue>>
    \/ SynchronizeAgain /\ UNCHANGED <<parser, validator, extraction, ledger_io, queue>>

SpecSync == SpecSyncInit /\ [][SpecSyncNext]_vars

\* C2: after synchronize_keys the keys parsed from the rewritten target are
\* exactly the keys parsed from the source, and a second call with the same
\* source finds nothing missing and nothing extra.
SynchronizerConvergence ==
    /\ sync.pc \in {"synchronized", "resynchronized"}
          => keys_of_text(sync.target) = keys_of_text(sync.source)
    /\ sync.pc = "resynchronized"
          => sync.second.missing_keys = {} /\ sync.second.extra_keys = {}

\* what a parsed line says: a comment or blank line its content, an entry
\* its key, separator and value
LineContent(line) ==
    IF is_entry(line) THEN <<"entry", line.key, line.separator_group, line.value>>
    ELSE <<"comment_or_blank", line.content>>

\* the comment and blank lines of a text and its entries with a key of K,
\* in the order of the text
KeptLines(text, K) ==
    LET lines == parse_properties_file(text)
        kept == SelectSeqIdx(lines, {i \in 1..Len(lines) :
                                        is_entry(lines[i]) => lines[i].key \in K})
    IN  [i \in 1..Len(kept) |-> LineContent(kept[i])]

\* C23: synchronize_keys changes the lines of the target only by deleting
\* the entries with an extra key and inserting entries for the missing
\* keys with the value of the source; the comment and blank lines and
\* the entries whose key is in both files stay, with their content and
\* in their order; and with no key missing or extra the file is not
\* written.
SynchronizerFrame ==
    sync.pc = "synchronized" =>
        LET source_translations == translations_of(parse_properties_file(sync.source))
            common == keys_of_text(sync.source) \cap keys_of_text(sync.target_before)
            missing == keys_of_text(sync.source) \ keys_of_text(sync.target_before)
            after == parse_properties_file(sync.target)
        IN  /\ KeptLines(sync.target, common) = KeptLines(sync.target_before, common)
            /\ \A i \in 1..Len(after) :
                  (is_entry(after[i]) /\ after[i].key \notin common)
                      => /\ after[i].key \in missing
                         /\ after[i].value = source_translations[after[i].key]
            /\ keys_of_text(sync.source) = keys_of_text(sync.target_before)
                  => ~sync.first.written /\ sync.target = sync.target_before

\* the elements of a sequence that are in K, in their order
RestrictedTo(seq, K) == SelectSeqIdx(seq, {i \in 1..Len(seq) : seq[i] \in K})

\* the entry keys of a text, in the order of the text
KeySequence(text) == key_order(parse_properties_file(text))

\* C24: each missing key is placed before the nearest following source
\* key that the target has, else after the nearest preceding one, else at
\* the end: whenever the keys common to both files appear in the target
\* in source order, the entry keys of the rewritten target are, in
\* sequence, the entry keys of the source.
InsertedKeysFollowSourceOrder ==
    LET common == keys_of_text(sync.source) \cap keys_of_text(sync.target_before)
    IN  (/\ sync.pc = "synchronized"
         /\ RestrictedTo(KeySequence(sync.target_before), common)
               = RestrictedTo(KeySequence(sync.source), common))
            => KeySequence(sync.target) = KeySequence(sync.source)

\* the insertions of the loop of synchronize_keys, from the i-th source key
\* on: for each one the key, the lines before it and the index chosen
RECURSIVE insertion_steps(_, _, _, _)
insertion_steps(i, missing_keys, source_parsed_lines, final_parsed_lines) ==
    LET source_key_order == key_order(source_parsed_lines)
    IN  IF i > Len(source_key_order) THEN {}
        ELSE
        LET key == source_key_order[i]
            source_line_index_by_key == entry_index_map(source_parsed_lines)
            source_entry == at0(source_parsed_lines, source_line_index_by_key[key])
            insertion_index ==
                find_insertion_index_for_missing_key(
                    key, source_key_order, source_parsed_lines,
                    source_line_index_by_key, final_parsed_lines)
        IN  IF key \notin missing_keys
            THEN insertion_steps(i + 1, missing_keys, source_parsed_lines,
                                 final_parsed_lines)
            ELSE {[key |-> key, lines |-> final_parsed_lines,
                   index |-> insertion_index]}
                 \cup insertion_steps(i + 1, missing_keys, source_parsed_lines,
                        insert(final_parsed_lines, insertion_index,
                               entry(key, source_entry.value, source_entry.value,
                                     source_entry.line_number,
                                     source_entry.was_multiline,
                                     source_entry.separator_group)))

\* the insertions synchronize_keys made in the first call
InsertionsOfFirstCall ==
    LET target_parsed_lines == parse_properties_file(sync.target_before)
        source_parsed_lines == parse_properties_file(sync.source)
        cov == check_key_coverage(DOMAIN translations_of(source_parsed_lines),
                                  DOMAIN translations_of(target_parsed_lines))
        kept == SelectSeqIdx(target_parsed_lines,
                    {i \in 1..Len(target_parsed_lines) :
                        ~(is_entry(target_parsed_lines[i])
                          /\ target_parsed_lines[i].key \in cov.extra_keys)})
    IN  insertion_steps(1, cov.missing_keys, source_parsed_lines, kept)

\* 1-based positions of the entries of lines with key k
EntryPositions(lines, k) ==
    {i \in 1..Len(lines) : is_entry(lines[i]) /\ lines[i].key = k}

\* the lines p+1 .. q-1 (1-based) of lines hold a comment or blank line
NonEntryBetween(lines, p, q) == \E i \in (p + 1)..(q - 1) : ~is_entry(lines[i])

\* the source line of the anchor of an insertion and its side: the nearest
\* following source entry whose key the target has, else the nearest
\* preceding one; side "none" when the target has neither
AnchorOf(step, source_parsed_lines) ==
    LET kl == Max(EntryPositions(source_parsed_lines, step.key))
        has(i) == /\ is_entry(source_parsed_lines[i])
                  /\ EntryPositions(step.lines, source_parsed_lines[i].key) # {}
        after == {i \in (kl + 1)..Len(source_parsed_lines) : has(i)}
        before == {i \in 1..(kl - 1) : has(i)}
    IN  IF after # {}
        THEN [side |-> "next", line |-> Min(after), key_line |-> kl]
        ELSE IF before # {}
        THEN [side |-> "prev", line |-> Max(before), key_line |-> kl]
        ELSE [side |-> "none", line |-> 0, key_line |-> kl]

\* the insertion has an anchor that a comment or blank line of the source
\* separates from the inserted key
SeparatedFromAnchor(step, source_parsed_lines) ==
    LET an == AnchorOf(step, source_parsed_lines)
    IN  \/ an.side = "next" /\ NonEntryBetween(source_parsed_lines, an.key_line, an.line)
        \/ an.side = "prev" /\ NonEntryBetween(source_parsed_lines, an.line, an.key_line)

\* the new entry goes to the far side of the comment block that adjoins
\* the anchor in the target, next to the nearest entry or the file's edge
PlacedBeyondCommentBlock(step, source_parsed_lines) ==
    LET an == AnchorOf(step, source_parsed_lines)
        anchor_key == source_parsed_lines[an.line].key
        j == step.index
        n == Len(step.lines)
    IN  \E q \in EntryPositions(step.lines, anchor_key) :
            IF an.side = "next"
            THEN /\ j + 1 <= q
                 /\ \A i \in (j + 1)..(q - 1) : ~is_entry(step.lines[i])
                 /\ (j = 0 \/ is_entry(step.lines[j]))
            ELSE /\ j >= q
                 /\ \A i \in (q + 1)..j : ~is_entry(step.lines[i])
                 /\ (j = n \/ is_entry(step.lines[j + 1]))

\* the lines synchronize_keys assembled in the first call
LinesOfFirstCall ==
    synchronized_lines(parse_properties_file(sync.target_before),
                       parse_properties_file(sync.source))

\* k and c are neighbouring entries of the source, k first, each key on one
\* line only, with at least one comment or blank line between them
SectionBreakBetween(source_parsed_lines, k, c) ==
    /\ Cardinality(EntryPositions(source_parsed_lines, k)) = 1
    /\ Cardinality(EntryPositions(source_parsed_lines, c)) = 1
    /\ LET kl == Max(EntryPositions(source_parsed_lines, k))
           cl == Max(EntryPositions(source_parsed_lines, c))
       IN  /\ kl + 1 < cl
           /\ \A i \in (kl + 1)..(cl - 1) : ~is_entry(source_parsed_lines[i])

\* a missing key that precedes a section comment of the source ends up
\* before the comment block that precedes the anchor in the target, and one
\* that follows a section comment, with no anchor after it, ends up after
\* the comment block that follows the anchor
SectionCommentsRespected ==
    LET source_parsed_lines == parse_properties_file(sync.source)
        target_keys == keys_of_text(sync.target_before)
        source_keys == keys_of_text(sync.source)
        L == LinesOfFirstCall
        once(c) == Cardinality(EntryPositions(L, c)) = 1
        pos(c) == Max(EntryPositions(L, c))
    IN  \A k \in source_keys \ target_keys, c \in source_keys \cap target_keys :
            /\ (SectionBreakBetween(source_parsed_lines, k, c) /\ once(c)) =>
                   \E b \in 1..pos(c) :
                       /\ \A i \in b..(pos(c) - 1) : ~is_entry(L[i])
                       /\ b > 1 /\ is_entry(L[b - 1])
                       /\ pos(k) < b
            /\ (/\ SectionBreakBetween(source_parsed_lines, c, k) /\ once(c)
                /\ \A i \in (Max(EntryPositions(source_parsed_lines, k)) + 1)..Len(source_parsed_lines) :
                       is_entry(source_parsed_lines[i]) => source_parsed_lines[i].key \notin target_keys) =>
                   \E e \in pos(c)..Len(L) :
                       /\ \A i \in (pos(c) + 1)..e : ~is_entry(L[i])
                       /\ e < Len(L) /\ is_entry(L[e + 1])
                       /\ pos(k) > e

\* C25: when a comment or blank line of the source lies between a missing
\* key and the anchor key it is placed next to, the new entry is inserted
\* on the same side of the target's comment block as in the source, next
\* to the nearest entry of the target, never between that comment block
\* and the anchor.
CommentAwareInsertion ==
    sync.pc = "synchronized" =>
        LET source_parsed_lines == parse_properties_file(sync.source)
        IN  /\ \A step \in InsertionsOfFirstCall :
                   SeparatedFromAnchor(step, source_parsed_lines)
                       => PlacedBeyondCommentBlock(step, source_parsed_lines)
            /\ SectionCommentsRespected

\* a missing key was inserted whose anchor has a comment block on the side
\* of the key in the target, and a comment between the two in the source
CommentAwareInsertionWitness ==
    /\ sync.pc = "synchronized"
    /\ LET source_parsed_lines == parse_properties_file(sync.source)
       IN  \E step \in InsertionsOfFirstCall :
               /\ SeparatedFromAnchor(step, source_parsed_lines)
               /\ LET an == AnchorOf(step, source_parsed_lines)
                      q == Max(EntryPositions(step.lines, source_parsed_lines[an.line].key))
                  IN  IF an.side = "next"
                      THEN q > 1 /\ ~is_entry(step.lines[q - 1])
                      ELSE q < Len(step.lines) /\ ~is_entry(step.lines[q + 1])

----------------------------------------------------------------------------
(* translation_validator.py: placeholder parity.                           *)

\* dict.get(key, default)
get(d, k, default) == IF k \in DOMAIN d THEN d[k] ELSE default

\* re.compile(r'\{([^{}]+)\}').findall(s): the contents of the matches,
\* found left to right without overlap
RECURSIVE placeholder_findall(_)
placeholder_findall(s) ==
    IF s = <<>> THEN <<>>
    ELSE IF s[1] # "{" THEN placeholder_findall(Tail(s))
    ELSE LET B == {j \in 2..Len(s) : s[j] \in {"{", "}"}}
         IN  IF B # {} /\ s[Min(B)] = "}" /\ Min(B) > 2
             THEN <<SubSeq(s, 2, Min(B) - 1)>>
                  \o placeholder_findall(From(s, Min(B) + 1))
             ELSE placeholder_findall(Tail(s))

\* collections.Counter(list)
Counter(list) ==
    [x \in {list[i] : i \in 1..Len(list)} |->
        Cardinality({i \in 1..Len(list) : list[i] = x})]

\* a bug: the placeholders compared as sets, repetition ignored
check_placeholder_parity_as_sets(base_string, target_string) ==
    DOMAIN Counter(placeholder_findall(base_string))
        = DOMAIN Counter(placeholder_findall(target_string))

check_placeholder_parity(base_string, target_string) ==
    Counter(placeholder_findall(base_string))
        = Counter(placeholder_findall(target_string))

----------------------------------------------------------------------------
(* The parity specification: two strings, each a few pieces long.          *)

MaxBasePieces == 3
MaxTargetPieces == 2

PlaceholderPieces ==
    { <<"{", "0", "}">>, <<"{", "1", "}">>, <<"{">>, <<"}">>, <<"a">> }

ParityInit ==
    \E b \in Files(PlaceholderPieces, MaxBasePieces),
       t \in Files(PlaceholderPieces, MaxTargetPieces) :
        validator = [pc |-> "strings", base_string |-> b, target_string |-> t,
                     parity |-> FALSE]

CheckParity ==
    /\ validator.pc = "strings"
    /\ validator' = [validator EXCEPT
                        !.pc = "checked",
                        !.parity = check_placeholder_parity(validator.base_string,
                                                            validator.target_string)]

\* the same check with the two strings exchanged
CheckParitySwapped ==
    /\ validator.pc = "strings"
    /\ validator' = [validator EXCEPT
                        !.pc = "checked",
                        !.base_string = validator.target_string,
                        !.target_string = validator.base_string,
                        !.parity = check_placeholder_parity(validator.target_string,
                                                            validator.base_string)]

SpecParityInit ==
    /\ ParityInit
    /\ parser = Idle /\ sync = Idle /\ extraction = Idle
    /\ ledger_io = Idle /\ queue = Idle

SpecParityNext ==
    \/ CheckParity /\ UNCHANGED <<parser, sync, extraction, ledger_io, queue>>
    \/ CheckParitySwapped /\ UNCHANGED <<parser, sync, extraction, ledger_io, queue>>

SpecParity == SpecParityInit /\ [][SpecParityNext]_vars

\* The placeholders of a string, stated on positions: a placeholder is a
\* '{' and a later '}' with at least one character and no brace between.
PlaceholderSpans(s) ==
    {sp \in (1..Len(s)) \X (1..Len(s)) :
        /\ s[sp[1]] = "{" /\ s[sp[2]] = "}" /\ sp[2] > sp[1] + 1
        /\ \A k \in (sp[1] + 1)..(sp[2] - 1) : s[k] \notin {"{", "}"}}

PlaceholderCount(s, c) ==
    Cardinality({sp \in PlaceholderSpans(s) : SubSeq(s, sp[1] + 1, sp[2] - 1) = c})

PlaceholderContents(s) ==
    {SubSeq(s, sp[1] + 1, sp[2] - 1) : sp \in PlaceholderSpans(s)}

SameMultiset(s, t) ==
    \A c \in PlaceholderContents(s) \cup PlaceholderContents(t) :
        PlaceholderCount(s, c) = PlaceholderCount(t, c)

----------------------------------------------------------------------------
(* translate_localization_files.py: per-key validation.                    *)
(* A dict that is iterated is a sequence of <<key, value>> items in        *)
(* insertion order with distinct keys; a dict that is only looked up is a  *)
(* function.                                                               *)

dict_of(items) ==
    [k \in {items[i][1] : i \in 1..Len(items)} |->
        items[Max({i \in 1..Len(items) : items[i][1] = k})][2]]

\* a bug: any failing key discards every translation of the file
run_per_key_validation_file_wide(final_translations, source_translations) ==
    LET F == dict_of(final_translations)
        bad == {k \in DOMAIN F :
                   ~check_placeholder_parity(get(source_translations, k, <<>>), F[k])}
        order == [i \in 1..Len(final_translations) |-> final_translations[i][1]]
    IN  [valid_translations |->
             [k \in DOMAIN F |->
                 IF bad = {} THEN F[k] ELSE get(source_translations, k, <<>>)],
         failed_keys |-> SelectSeqIdx(order, {i \in 1..Len(order) : order[i] \in bad})]

RECURSIVE validate_items(_, _, _)
validate_items(items, source_translations, acc) ==
    IF items = <<>> THEN acc
    ELSE
    LET key == items[1][1]
        target_value == items[1][2]
        source_value == get(source_translations, key, <<>>)
    IN  IF check_placeholder_parity(source_value, target_value)
        THEN validate_items(Tail(items), source_translations,
                 [acc EXCEPT !.valid_translations =
                     acc.valid_translations \o <<<<key, target_value>>>>])
        ELSE validate_items(Tail(items), source_translations,
                 [valid_translations |->
                      acc.valid_translations \o <<<<key, source_value>>>>,
                  failed_keys |-> Append(acc.failed_keys, key)])

run_per_key_validation(final_translations, source_translations) ==
    LET r == validate_items(final_translations, source_translations,
                            [valid_translations |-> <<>>, failed_keys |-> <<>>])
    IN  [valid_translations |-> dict_of(r.valid_translations),
         failed_keys |-> r.failed_keys]

----------------------------------------------------------------------------
(* The per-key validation specification: a final translations map and a    *)
(* source map over a few keys.                                             *)

NumKeys == 3
Keys == {<<"k", i>> : i \in 1..NumKeys}

PerKeyValues == { <<"{", "0", "}">>, <<"a", "{", "0", "}">>, <<"a">> }

\* the dicts over subsets of Keys, as functions
Dicts(K, V) == UNION {[D -> V] : D \in SUBSET K}

\* the items of a dict, in the order of the key numbers
RECURSIVE items_of(_, _)
items_of(d, n) ==
    IF n = 0 THEN <<>>
    ELSE IF <<"k", n>> \in DOMAIN d
         THEN Append(items_of(d, n - 1), <<<<"k", n>>, d[<<"k", n>>]>>)
         ELSE items_of(d, n - 1)

PerKeyInit ==
    \E F \in Dicts(Keys, PerKeyValues), S \in Dicts(Keys, PerKeyValues) :
        validator = [pc |-> "maps", final_translations |-> items_of(F, NumKeys),
                     source_translations |-> S,
                     valid_translations |-> <<>>, failed_keys |-> <<>>]

RunPerKeyValidation ==
    /\ validator.pc = "maps"
    /\ LET r == run_per_key_validation(validator.final_translations,
                                       validator.source_translations)
       IN  validator' = [validator EXCEPT
                            !.pc = "validated",
                            !.valid_translations = r.valid_translations,
                            !.failed_keys = r.failed_keys]

\* the same call when the caller's map lists its keys in the opposite order
RunPerKeyValidationReversed ==
    /\ validator.pc = "maps"
    /\ LET items == validator.final_translations
           rev == [i \in 1..Len(items) |-> items[Len(items) + 1 - i]]
           r == run_per_key_validation(rev, validator.source_translations)
       IN  validator' = [validator EXCEPT
                            !.pc = "validated",
                            !.final_translations = rev,
                            !.valid_translations = r.valid_translations,
                            !.failed_keys = r.failed_keys]

SpecPerKeyInit ==
    /\ PerKeyInit
    /\ parser = Idle /\ sync = Idle /\ extraction = Idle
    /\ ledger_io = Idle /\ queue = Idle

SpecPerKeyNext ==
    \/ RunPerKeyValidation /\ UNCHANGED <<parser, sync, extraction, ledger_io, queue>>
    \/ RunPerKeyValidationReversed /\ UNCHANGED <<parser, sync, extraction, ledger_io, queue>>

SpecPerKey == SpecPerKeyInit /\ [][SpecPerKeyNext]_vars

PassesParity(k) ==
    check_placeholder_parity(get(validator.source_translations, k, <<>>),
                             dict_of(validator.final_translations)[k])

\* C3: the result has exactly the keys of the final translations map; a key
\* that passes parity against its source value keeps its value, a key that
\* fails has the source value, whatever the other keys do; failed_keys
\* lists exactly the failing keys, each once.
PerKeyIsolation ==
    validator.pc = "validated" =>
        LET F == dict_of(validator.final_translations)
            V == validator.valid_translations
            failed == validator.failed_keys
        IN  /\ DOMAIN V = DOMAIN F
            /\ \A k \in DOMAIN F :
                  V[k] = IF PassesParity(k) THEN F[k]
                         ELSE get(validator.source_translations, k, <<>>)
            /\ {failed[i] : i \in 1..Len(failed)} = {k \in DOMAIN F : ~PassesParity(k)}
            /\ \A i, j \in 1..Len(failed) : failed[i] = failed[j] => i = j

\* C3 witness: one key failed and was reverted while another key kept a
\* translation that differs from its source value.
PerKeyIsolationWitness ==
    /\ validator.pc = "validated"
    /\ Len(validator.failed_keys) = 1
    /\ \E k \in DOMAIN validator.valid_translations :
          /\ PassesParity(k)
          /\ k \in DOMAIN validator.source_translations
          /\ validator.valid_translations[k] # validator.source_translations[k]
    /\ \E k \in DOMAIN validator.valid_translations :
          /\ ~PassesParity(k)
          /\ validator.valid_translations[k]
                # dict_of(validator.final_translations)[k]

\* C28: a key of the final translations map that the source map does not
\* have keeps its final translation in the result, whatever the value is,
\* values with placeholders included.
MissingSourceKeyKept ==
    validator.pc = "validated" =>
        LET F == dict_of(validator.final_translations)
        IN  \A k \in DOMAIN F \ DOMAIN validator.source_translations :
                /\ k \in DOMAIN validator.valid_translations
                /\ validator.valid_translations[k] = F[k]

----------------------------------------------------------------------------
(* translate_localization_files.py: the translation key ledger and change  *)
(* detection.                                                              *)
(* A JSON value is a record tagged with its kind; an object carries its    *)
(* members as a function.  None is Python's None.                          *)

None == "None"
JsonObject(members) == [json |-> "object", members |-> members]
JsonString == [json |-> "string"]
JsonNull == [json |-> "null"]
EmptyDict == JsonObject(<<>>)

\* isinstance(x, dict)
is_dict(x) == x.json = "object"

\* the truth value of a JSON value ("x or {}")
truthy(x) ==
    IF x.json = "object" THEN DOMAIN x.members # {}
    ELSE x.json = "string"

\* normalize_value: both newline forms become one token, whitespace runs
\* collapse to one space, the ends are stripped
RECURSIVE collapse_whitespace(_)
collapse_whitespace(s) ==
    IF s = <<>> THEN <<>>
    ELSE IF isspace(s[1])
         THEN <<SP>> \o collapse_whitespace(lstrip(s))
         ELSE <<s[1]>> \o collapse_whitespace(Tail(s))

normalize_value(value) ==
    IF value = None THEN <<>>
    ELSE collapse_whitespace(strip(
             replace(replace(value, <<BS, "n">>, <<"<newline>">>),
                     <<NL>>, <<"<newline>">>)))

\* sha256 of the normalized value, taken to be free of collisions
compute_ledger_hash(value) == <<"sha256", normalize_value(value)>>

\* the file at the ledger path: missing, unreadable, not JSON, or a JSON
\* value
load_translation_key_ledger(file) ==
    IF file.state = "missing" THEN EmptyDict
    ELSE IF file.state \in {"unreadable", "invalid_json"} THEN EmptyDict
    ELSE LET payload == file.payload
         IN  IF ~is_dict(payload) THEN EmptyDict
             ELSE LET files_obj == get(payload.members, "files", EmptyDict)
                  IN  IF ~is_dict(files_obj) THEN EmptyDict ELSE files_obj

\* code points, for sorted()
Ord(c) ==
    CASE c = NL -> 10 [] c = SP -> 32 [] c = "#" -> 35 [] c = "'" -> 39
      [] c = "0" -> 48 [] c = "1" -> 49 [] c = ":" -> 58 [] c = "=" -> 61
      [] c = BS -> 92 [] c = "a" -> 97 [] c = "k" -> 107 [] c = "n" -> 110
      [] c = "{" -> 123 [] c = "}" -> 125

RECURSIVE str_less(_, _)
str_less(s, t) ==
    IF t = <<>> THEN FALSE
    ELSE IF s = <<>> THEN TRUE
    ELSE IF s[1] = t[1] THEN str_less(Tail(s), Tail(t))
    ELSE Ord(s[1]) < Ord(t[1])

\* sorted(list(S)) for a set of strings
RECURSIVE sorted(_)
sorted(S) ==
    IF S = {} THEN <<>>
    ELSE LET m == CHOOSE x \in S : \A y \in S \ {x} : str_less(x, y)
         IN  <<m>> \o sorted(S \ {m})

\* a bug: a change of the source value is not detected
should_translate_existing_ignoring_ledger(line, source_value, newly_added_keys, file_ledger_entries, retranslate_identical_existing) ==
    IF ~is_dict(file_ledger_entries) THEN "raise"
    ELSE IF ~is_dict(get(file_ledger_entries.members, line.key, EmptyDict))
    THEN "raise"
    ELSE IF \/ line.key \in newly_added_keys
            \/ strip(source_value) = strip(line.value) /\ retranslate_identical_existing
         THEN "translate" ELSE "skip"

\* a bug: a key without a recorded source_hash counts as changed
should_translate_existing_without_baseline(line, source_value, newly_added_keys, file_ledger_entries, retranslate_identical_existing) ==
    IF ~is_dict(file_ledger_entries) THEN "raise"
    ELSE IF ~is_dict(get(file_ledger_entries.members, line.key, EmptyDict))
    THEN "raise"
    ELSE IF \/ line.key \in newly_added_keys
            \/ strip(source_value) = strip(line.value) /\ retranslate_identical_existing
            \/ LET previous_source_hash ==
                       get(get(file_ledger_entries.members, line.key,
                               EmptyDict).members, "source_hash", None)
               IN  \/ previous_source_hash = None
                   \/ previous_source_hash # compute_ledger_hash(source_value)
         THEN "translate" ELSE "skip"

\* the decision of extract_texts_to_translate for one entry line.  The
\* result is "raise" when a lookup fails on a value that is not a dict.
should_translate_existing(line, source_value, newly_added_keys, file_ledger_entries, retranslate_identical_existing) ==
    IF ~is_dict(file_ledger_entries) THEN "raise"
    ELSE
    LET ledger_entry == get(file_ledger_entries.members, line.key, EmptyDict)
    IN  IF ~is_dict(ledger_entry) THEN "raise"
        ELSE
        LET is_source_identical == strip(source_value) = strip(line.value)
            previous_source_hash == get(ledger_entry.members, "source_hash", None)
            current_source_hash == compute_ledger_hash(source_value)
            should_translate_newly_added == line.key \in newly_added_keys
            should_translate_legacy_mode ==
                is_source_identical /\ retranslate_identical_existing
            should_translate_changed_source ==
                previous_source_hash # None
                    /\ previous_source_hash # current_source_hash
        IN  IF \/ should_translate_newly_added
               \/ should_translate_legacy_mode
               \/ should_translate_changed_source
            THEN "translate" ELSE "skip"

\* the first loop of extract_texts_to_translate, from line i (1-based) on
RECURSIVE extract_existing(_, _, _, _, _, _, _)
extract_existing(i, parsed_lines, source_translations, newly_added_keys, file_ledger_entries, retranslate_identical_existing, acc) ==
    IF i > Len(parsed_lines) \/ acc.raised THEN acc
    ELSE
    LET line == parsed_lines[i]
        source_value == IF is_entry(line)
                        THEN get(source_translations, line.key, None) ELSE None
        decision == IF source_value = None THEN "skip"
                    ELSE should_translate_existing(line, source_value,
                             newly_added_keys, file_ledger_entries,
                             retranslate_identical_existing)
    IN  extract_existing(i + 1, parsed_lines, source_translations,
            newly_added_keys, file_ledger_entries, retranslate_identical_existing,
            CASE decision = "raise" -> [acc EXCEPT !.raised = TRUE]
              [] decision = "translate" ->
                    [acc EXCEPT !.texts = Append(@, source_value),
                                !.indices = Append(@, i - 1),
                                !.keys = Append(@, line.key)]
              [] OTHER -> acc)

extract_texts_to_translate(parsed_lines, source_translations, newly_added_keys, file_ledger_entries, retranslate_identical_existing) ==
    LET entries == IF truthy(file_ledger_entries)
                   THEN file_ledger_entries ELSE EmptyDict
        existing_keys_in_target ==
            {parsed_lines[i].key :
                i \in {j \in 1..Len(parsed_lines) : is_entry(parsed_lines[j])}}
        first == extract_existing(1, parsed_lines, source_translations,
                     newly_added_keys, entries, retranslate_identical_existing,
                     [raised |-> FALSE, texts |-> <<>>, indices |-> <<>>,
                      keys |-> <<>>])
        new_keys == sorted(DOMAIN source_translations \ existing_keys_in_target)
    IN  IF first.raised
        THEN [raised |-> TRUE, texts |-> <<>>, indices |-> <<>>, keys |-> <<>>]
        ELSE [raised |-> FALSE,
              texts |-> first.texts
                        \o [j \in 1..Len(new_keys) |-> source_translations[new_keys[j]]],
              indices |-> first.indices
                        \o [j \in 1..Len(new_keys) |-> Len(parsed_lines) + j - 1],
              keys |-> first.keys \o new_keys]

----------------------------------------------------------------------------
(* The change detection specification: the parsed lines of a target file,  *)
(* a source map, the keys added by synchronization, the ledger entries of  *)
(* the file and the legacy flag.                                           *)

MaxExtractLines == 2

ExtractKeys == { <<"a">>, <<"n">> }
ExtractSourceValues == { <<"a">>, <<"n">>, <<"a", SP>> }

ExtractLineForms ==
    { <<entry(<<"a">>, <<"a">>, <<"a">>, 0, FALSE, <<"=">>)>>,
      <<entry(<<"a">>, <<"n">>, <<"n">>, 0, FALSE, <<"=">>)>>,
      <<entry(<<"n">>, <<"a">>, <<"a">>, 0, FALSE, <<"=">>)>>,
      <<comment_or_blank(<<"#", NL>>)>> }

\* a well-formed ledger entry of one key
LedgerEntries ==
    {JsonObject("source_hash" :> compute_ledger_hash(v)) : v \in {<<"a">>, <<"n">>}}

\* the ledger entries the change detection is run with: the well-formed
\* ones, one that records a failed translation of the source value a, and
\* one whose recorded target was a translation n of the source value a
ExtractLedgerEntries ==
    LedgerEntries
        \cup {JsonObject([f \in {"source_hash", "target_hash", "status"} |->
                            IF f = "status" THEN <<"f", "a", "i", "l", "e", "d">>
                            ELSE compute_ledger_hash(<<"a">>)]),
              JsonObject([f \in {"source_hash", "target_hash"} |->
                            IF f = "source_hash" THEN compute_ledger_hash(<<"a">>)
                            ELSE compute_ledger_hash(<<"n">>)])}

ExtractInit ==
    \E lines \in Files(ExtractLineForms, MaxExtractLines),
       S \in Dicts(ExtractKeys, ExtractSourceValues),
       added \in SUBSET ExtractKeys,
       L \in Dicts(ExtractKeys, ExtractLedgerEntries),
       flag \in BOOLEAN :
        extraction = [pc |-> "inputs", parsed_lines |-> lines,
                      source_translations |-> S, newly_added_keys |-> added,
                      file_ledger_entries |-> JsonObject(L),
                      retranslate_identical_existing |-> flag,
                      result |-> <<>>, result_without_ledger |-> <<>>]

ExtractTexts ==
    /\ extraction.pc = "inputs"
    /\ extraction' =
          [extraction EXCEPT
              !.pc = "extracted",
              !.result = extract_texts_to_translate(
                             extraction.parsed_lines,
                             extraction.source_translations,
                             extraction.newly_added_keys,
                             extraction.file_ledger_entries,
                             extraction.retranslate_identical_existing)]

\* the same call after the ledger was lost: load_translation_key_ledger
\* returns {} for a missing file and key_ledger.get(translation_file, {})
\* passes {} as file_ledger_entries
ExtractTextsWithoutLedger ==
    /\ extraction.pc = "extracted"
    /\ extraction' =
          [extraction EXCEPT
              !.pc = "compared",
              !.result_without_ledger = extract_texts_to_translate(
                             extraction.parsed_lines,
                             extraction.source_translations,
                             extraction.newly_added_keys,
                             EmptyDict,
                             extraction.retranslate_identical_existing)]

SpecExtractInit ==
    /\ ExtractInit
    /\ parser = Idle /\ sync = Idle /\ validator = Idle
    /\ ledger_io = Idle /\ queue = Idle

SpecExtractNext ==
    \/ ExtractTexts /\ UNCHANGED <<parser, sync, validator, ledger_io, queue>>
    \/ ExtractTextsWithoutLedger
           /\ UNCHANGED <<parser, sync, validator, ledger_io, queue>>

SpecExtract == SpecExtractInit /\ [][SpecExtractNext]_vars

\* line i (1-based) is selected: its key, its 0-based index and the current
\* source value appear together in the result
Selected(i) ==
    LET r == extraction.result
        line == extraction.parsed_lines[i]
    IN  \E j \in 1..Len(r.keys) :
            /\ r.keys[j] = line.key
            /\ r.indices[j] = i - 1
            /\ r.texts[j] = extraction.source_translations[line.key]

ExistingEntryLines ==
    {i \in 1..Len(extraction.parsed_lines) :
        /\ is_entry(extraction.parsed_lines[i])
        /\ extraction.parsed_lines[i].key \in DOMAIN extraction.source_translations}

HasLedgerEntry(k) == k \in DOMAIN extraction.file_ledger_entries.members

NewlyAddedTrigger(i) ==
    extraction.parsed_lines[i].key \in extraction.newly_added_keys

LegacyTrigger(i) ==
    /\ extraction.retranslate_identical_existing
    /\ extraction.source_translations[extraction.parsed_lines[i].key]
          = extraction.parsed_lines[i].value

ChangedSourceTrigger(i) ==
    LET k == extraction.parsed_lines[i].key
    IN  /\ HasLedgerEntry(k)
        /\ "source_hash" \in DOMAIN extraction.file_ledger_entries.members[k].members
        /\ extraction.file_ledger_entries.members[k].members["source_hash"]
              # compute_ledger_hash(extraction.source_translations[k])

LedgerRecords(i, f, v) ==
    LET k == extraction.parsed_lines[i].key
    IN  /\ HasLedgerEntry(k)
        /\ f \in DOMAIN extraction.file_ledger_entries.members[k].members
        /\ extraction.file_ledger_entries.members[k].members[f] = v

\* the ledger entry of the key of line i has a target_hash, and it is not
\* the hash of the line's current value
TargetHashDiffers(i) ==
    LET k == extraction.parsed_lines[i].key
    IN  /\ HasLedgerEntry(k)
        /\ "target_hash" \in DOMAIN extraction.file_ledger_entries.members[k].members
        /\ extraction.file_ledger_entries.members[k].members["target_hash"]
              # compute_ledger_hash(extraction.parsed_lines[i].value)

\* C26: an existing key whose ledger entry carries the status failed is
\* selected for translation, also when the recorded source_hash is the
\* hash of the current source value and the legacy flag is off.
FailedKeysRetried ==
    extraction.pc = "extracted" =>
        \A i \in ExistingEntryLines :
            LedgerRecords(i, "status", <<"f", "a", "i", "l", "e", "d">>) => Selected(i)

\* C27: an existing key whose target value equals the source value while
\* the recorded target_hash is not the hash of that value is selected for
\* translation, also when the recorded source_hash is unchanged and the
\* legacy flag is off.
RegressedKeysRetried ==
    extraction.pc = "extracted" =>
        \A i \in ExistingEntryLines :
            (/\ extraction.parsed_lines[i].value
                   = extraction.source_translations[extraction.parsed_lines[i].key]
             /\ TargetHashDiffers(i)) => Selected(i)

SelectedKeys(r) == {r.keys[j] : j \in 1..Len(r.keys)}

\* C11: for the same parsed lines, source map, newly added keys and flag,
\* the keys selected with an empty ledger are a superset of the keys
\* selected with the populated ledger.
LosingLedgerSelectsSuperset ==
    extraction.pc = "compared" =>
        SelectedKeys(extraction.result)
            \subseteq SelectedKeys(extraction.result_without_ledger)

----------------------------------------------------------------------------
(* The ledger load specification: every shape of the file at the ledger    *)
(* path, loaded and then used by change detection for one target file.     *)

TranslationFile == "app_de.properties"

\* what the ledger may hold for one key, well-formed or not
AnyKeyEntries == LedgerEntries \cup {JsonString, JsonNull, EmptyDict}

\* what the ledger may hold for one file
AnyFileEntries ==
    {JsonString, JsonNull} \cup {JsonObject(m) : m \in Dicts(ExtractKeys, AnyKeyEntries)}

AnyFilesObjects ==
    {JsonString, JsonNull, EmptyDict}
        \cup {JsonObject(TranslationFile :> fe) : fe \in AnyFileEntries}

AnyPayloads ==
    {JsonString, JsonNull, EmptyDict}
        \cup {JsonObject("files" :> fo) : fo \in AnyFilesObjects}

LedgerFiles ==
    {[state |-> "missing"], [state |-> "unreadable"], [state |-> "invalid_json"]}
        \cup {[state |-> "json", payload |-> p] : p \in AnyPayloads}

\* a structurally valid ledger: an object whose "files" is an object of
\* per-file objects of per-key objects
StructurallyValid(file) ==
    /\ file.state = "json"
    /\ is_dict(file.payload)
    /\ LET files_obj == get(file.payload.members, "files", EmptyDict)
       IN  /\ is_dict(files_obj)
           /\ \A f \in DOMAIN files_obj.members :
                 /\ is_dict(files_obj.members[f])
                 /\ \A k \in DOMAIN files_obj.members[f].members :
                       is_dict(files_obj.members[f].members[k])

LedgerLoadInit ==
    \E file \in LedgerFiles,
       lines \in Files(ExtractLineForms, MaxExtractLines),
       S \in Dicts(ExtractKeys, ExtractSourceValues) :
        extraction = [pc |-> "disk", ledger_file |-> file, key_ledger |-> EmptyDict,
                      parsed_lines |-> lines, source_translations |-> S,
                      newly_added_keys |-> {},
                      file_ledger_entries |-> EmptyDict,
                      retranslate_identical_existing |-> FALSE,
                      result |-> <<>>]

LoadLedger ==
    /\ extraction.pc = "disk"
    /\ extraction' =
          [extraction EXCEPT
              !.pc = "loaded",
              !.key_ledger = load_translation_key_ledger(extraction.ledger_file)]

\* process_translation_queue looks up the file's entries and detects changes
DetectChanges ==
    /\ extraction.pc = "loaded"
    /\ LET entries == get(extraction.key_ledger.members, TranslationFile, EmptyDict)
       IN  extraction' =
              [extraction EXCEPT
                  !.pc = "extracted",
                  !.file_ledger_entries = entries,
                  !.result = extract_texts_to_translate(
                                 extraction.parsed_lines,
                                 extraction.source_translations,
                                 extraction.newly_added_keys,
                                 entries,
                                 extraction.retranslate_identical_existing)]

SpecLedgerLoadInit ==
    /\ LedgerLoadInit
    /\ parser = Idle /\ sync = Idle /\ validator = Idle
    /\ ledger_io = Idle /\ queue = Idle

SpecLedgerLoadNext ==
    \/ LoadLedger /\ UNCHANGED <<parser, sync, validator, ledger_io, queue>>
    \/ DetectChanges /\ UNCHANGED <<parser, sync, validator, ledger_io, queue>>

SpecLedgerLoad == SpecLedgerLoadInit /\ [][SpecLedgerLoadNext]_vars

\* C10: load_translation_key_ledger returns an empty ledger whenever the
\* file is not a structurally valid ledger, and the later lookup of per-key
\* entries during change detection never raises.
LedgerLoadNeverFails ==
    /\ (extraction.pc \in {"loaded", "extracted"}
            /\ ~StructurallyValid(extraction.ledger_file))
          => extraction.key_ledger = EmptyDict
    /\ extraction.pc = "extracted" => ~extraction.result.raised

----------------------------------------------------------------------------
(* save_translation_key_ledger.  The file system maps a path to the text   *)
(* of the file there (Missing: no file).  A ledger text is written in      *)
(* NumChunks pieces; the text of the ledger saved by the v-th call is      *)
(* Payload(v).  The process may be killed between any two steps, and any   *)
(* step that touches the file system may fail with an exception.           *)

NumChunks == 2
MaxSaves == 2

Missing == [exists |-> FALSE, text |-> <<>>]
File(text) == [exists |-> TRUE, text |-> text]
ledger_file_path == "ledger.json"

\* a bug: the payload is dumped straight to the ledger path
temp_path_in_place == ledger_file_path

\* temp_path = f"{ledger_file_path}.tmp"
temp_path == "ledger.json.tmp"

Paths == {ledger_file_path, "ledger.json.tmp"}

\* json.dump(payload, f, ...) of the v-th save, as the chunks it writes
Payload(v) == [i \in 1..NumChunks |-> <<v, i>>]

\* a file holding the complete ledger of the v-th save
Ledger(v) == File(Payload(v))

SaveInit ==
    \E previous \in {Missing, Ledger(0)}, dry \in BOOLEAN :
        ledger_io = [pc |-> "ready", DRY_RUN |-> dry, saves |-> 0,
                     fs |-> [p \in Paths |->
                                IF p = ledger_file_path THEN previous ELSE Missing],
                     previous |-> previous, observed |-> previous]

\* the call: in a dry run nothing is written
SaveBegin ==
    /\ ledger_io.pc = "ready"
    /\ ledger_io.saves < MaxSaves
    /\ ledger_io' = [ledger_io EXCEPT
                        !.saves = @ + 1,
                        !.previous = ledger_io.fs[ledger_file_path],
                        !.pc = IF ledger_io.DRY_RUN THEN "ready" ELSE "open"]

\* open(temp_path, 'w'): creates or truncates the temporary file
OpenTemp ==
    /\ ledger_io.pc = "open"
    /\ ledger_io' = [ledger_io EXCEPT !.pc = "dump", !.fs[temp_path] = File(<<>>)]

\* json.dump: one more chunk reaches the temporary file
DumpChunk ==
    /\ ledger_io.pc = "dump"
    /\ Len(ledger_io.fs[temp_path].text) < NumChunks
    /\ ledger_io' = [ledger_io EXCEPT
                        !.fs[temp_path].text =
                            Append(@, Payload(ledger_io.saves)[Len(@) + 1])]

\* the with block ends: the temporary file is closed
CloseTemp ==
    /\ ledger_io.pc = "dump"
    /\ Len(ledger_io.fs[temp_path].text) = NumChunks
    /\ ledger_io' = [ledger_io EXCEPT !.pc = "replace"]

\* os.replace(temp_path, ledger_file_path)
ReplaceLedger ==
    /\ ledger_io.pc = "replace"
    /\ ledger_io' = [ledger_io EXCEPT
                        !.pc = "ready",
                        !.fs = [p \in Paths |->
                                   IF p = ledger_file_path THEN ledger_io.fs[temp_path]
                                   ELSE IF p = temp_path THEN Missing
                                   ELSE ledger_io.fs[p]]]

\* an I/O error in open, write or replace: caught and logged, the call
\* returns
SaveFails ==
    /\ ledger_io.pc \in {"open", "dump", "replace"}
    /\ ledger_io' = [ledger_io EXCEPT !.pc = "ready"]

\* the process is killed in the middle of a save
Crash ==
    /\ ledger_io.pc \in {"open", "dump", "replace"}
    /\ ledger_io' = [ledger_io EXCEPT !.pc = "killed"]

\* a later run of the program starts
Restart ==
    /\ ledger_io.pc = "killed"
    /\ ledger_io' = [ledger_io EXCEPT !.pc = "ready"]

\* another process reads the ledger path
ReadLedger ==
    /\ ledger_io.observed # ledger_io.fs[ledger_file_path]
    /\ ledger_io' = [ledger_io EXCEPT !.observed = ledger_io.fs[ledger_file_path]]

SpecSaveInit ==
    /\ SaveInit
    /\ parser = Idle /\ sync = Idle /\ validator = Idle
    /\ extraction = Idle /\ queue = Idle

SpecSaveNext ==
    \/ SaveBegin /\ UNCHANGED <<parser, sync, validator, extraction, queue>>
    \/ OpenTemp /\ UNCHANGED <<parser, sync, validator, extraction, queue>>
    \/ DumpChunk /\ UNCHANGED <<parser, sync, validator, extraction, queue>>
    \/ CloseTemp /\ UNCHANGED <<parser, sync, validator, extraction, queue>>
    \/ ReplaceLedger /\ UNCHANGED <<parser, sync, validator, extraction, queue>>
    \/ SaveFails /\ UNCHANGED <<parser, sync, validator, extraction, queue>>
    \/ Crash /\ UNCHANGED <<parser, sync, validator, extraction, queue>>
    \/ Restart /\ UNCHANGED <<parser, sync, validator, extraction, queue>>
    \/ ReadLedger /\ UNCHANGED <<parser, sync, validator, extraction, queue>>

SpecSave == SpecSaveInit /\ [][SpecSaveNext]_vars

\* C9: whatever step a save is interrupted at, the ledger path holds the
\* complete previous content or the complete new content, and a reader
\* only ever observes such a content.
AtomicLedgerSave ==
    /\ ledger_io.fs[ledger_file_path]
          \in {ledger_io.previous, Ledger(ledger_io.saves)}
    /\ ledger_io.observed \in {Missing} \cup {Ledger(v) : v \in 0..MaxSaves}

\* C9 witness: a save was interrupted after a part of the new content had
\* been written, and the ledger path still holds the previous ledger.
AtomicLedgerSaveWitness ==
    /\ ledger_io.pc = "killed"
    /\ ledger_io.saves = 2
    /\ ledger_io.fs[temp_path].exists
    /\ Len(ledger_io.fs[temp_path].text) \in 1..(NumChunks - 1)
    /\ ledger_io.fs[ledger_file_path] = Ledger(1)

----------------------------------------------------------------------------
(* translate_localization_files.py: the steps of process_translation_queue *)
(* for one file.  A file on disk is a record: state "text" with its text,  *)
(* "unreadable" (opening it raises OSError) or "not_utf8" (decoding it     *)
(* raises UnicodeDecodeError).                                             *)

TextFile(text) == [state |-> "text", text |-> text]

\* the characters a backslash may stand before in a value:
\* [tnfr\\=:#\s!"] and uXXXX
EscapeChars == {"t", "n", "f", "r", BS, "=", ":", "#", "!", "\""}
HexDigits == {"0", "1", "a", "f"}

\* re.search(r'\\(?!u[0-9a-fA-F]{4}|[tnfr\\=:#\s!"])', s)
invalid_escape(s) ==
    \E i \in 1..Len(s) :
        /\ s[i] = BS
        /\ ~ /\ i < Len(s)
             /\ \/ s[i + 1] \in EscapeChars
                \/ isspace(s[i + 1])
                \/ /\ s[i + 1] = "u"
                   /\ i + 5 <= Len(s)
                   /\ \A j \in (i + 2)..(i + 5) : s[j] \in HexDigits

\* the errors lint_properties_file finds on line number i
lint_line(raw, i) ==
    LET line == strip(raw)
        S == {j \in 1..Len(line) :
                 line[j] \in {"=", ":"} /\ (j = 1 \/ line[j - 1] # BS)}
    IN  IF line = <<>> \/ line[1] \in {"#", "!"} \/ S = {} THEN <<>>
        ELSE
        LET sep_idx == Min(S)
            key == strip(SubSeq(line, 1, sep_idx - 1))
            value == From(line, sep_idx + 1)
            value_to_check ==
                IF trailing_backslashes(value) % 2 = 1
                THEN SubSeq(value, 1, Len(value) - 1) ELSE value
        IN  (IF contains(key, <<".", ".">>)
             THEN <<<<"Malformed key", key, i>>>> ELSE <<>>)
            \o (IF invalid_escape(value_to_check)
                THEN <<<<"Invalid escape sequence", key, i>>>> ELSE <<>>)

lint_properties_file(file) ==
    IF file.state # "text" THEN <<<<"Could not read or process file">>>>
    ELSE LET lines == readlines(file.text)
             F[i \in 0..Len(lines)] ==
                 IF i = 0 THEN <<>> ELSE F[i - 1] \o lint_line(lines[i], i)
         IN  F[Len(lines)]

\* the bytes 0x80..0xFF read as Latin-1, and the replacement character
Latin1High == {"¼"}
ReplacementCharacter == "U+FFFD"

check_encoding_and_mojibake(file) ==
    IF file.state = "not_utf8" THEN <<<<"not a valid UTF-8 file">>>>
    ELSE IF file.state = "unreadable" THEN <<<<"Could not read file">>>>
    ELSE
    LET content == file.text
        mojibake == \E i \in 1..(Len(content) - 1) :
                        content[i] = "Ã" /\ content[i + 1] \in Latin1High
    IN  (IF mojibake THEN <<<<"Potential mojibake detected">>>> ELSE <<>>)
        \o (IF contains(content, <<ReplacementCharacter>>)
            THEN <<<<"contains the Unicode replacement character">>>> ELSE <<>>)

\* run_pre_translation_validation after the key synchronization: the
\* encoding check and the placeholder check of the keys common to both
\* files.  iteration is the order in which the set common_keys is iterated.
check_synchronized(synced, source_file, iteration) ==
    LET new_target == TextFile(synced.target_text)
        encoding_errors == check_encoding_and_mojibake(new_target)
        target_translations == translations_of(parse_properties_file(new_target.text))
        source_translations == translations_of(parse_properties_file(source_file.text))
        common_keys == DOMAIN source_translations \cap DOMAIN target_translations
        mismatched == {j \in 1..Len(iteration) :
                          /\ iteration[j] \in common_keys
                          /\ ~check_placeholder_parity(
                                 source_translations[iteration[j]],
                                 target_translations[iteration[j]])}
        keys_mismatched == SelectSeqIdx(iteration, mismatched)
    IN  [outcome |-> "return",
         errors |-> encoding_errors
                    \o [j \in 1..Len(keys_mismatched) |->
                           <<"Placeholder mismatch", keys_mismatched[j]>>],
         newly_added_keys |-> synced.missing_keys,
         target_file |-> new_target]

\* run_pre_translation_validation.  outcome "raise": an exception that is
\* no OSError leaves the function.
run_pre_translation_validation(target_file, source_file, iteration) ==
    IF "not_utf8" \in {target_file.state, source_file.state}
    THEN [outcome |-> "raise", errors |-> <<>>, newly_added_keys |-> {},
          target_file |-> target_file]
    ELSE IF "unreadable" \in {target_file.state, source_file.state}
    THEN [outcome |-> "return",
          errors |-> <<<<"I/O error during key synchronization">>>>,
          newly_added_keys |-> {}, target_file |-> target_file]
    ELSE CHOOSE r \in {check_synchronized(synced, source_file, iteration) :
                          synced \in {synchronize_keys(target_file.text,
                                                       source_file.text)}} : TRUE

\* _escape_messageformat_if_needed
escape_messageformat_if_needed(src_text, value) ==
    IF placeholder_findall(src_text) # <<>>
    THEN replace(replace(value, <<"'", "'">>, <<"'">>), <<"'">>, <<"'", "'">>)
    ELSE value

\* integrate_translations, from the idx-th translation (1-based) on
RECURSIVE integrate_translations_from(_, _, _, _, _, _)
integrate_translations_from(idx, parsed_lines, translations, indices, keys, source_translations) ==
    IF idx > Min({Len(indices), Len(keys)}) THEN parsed_lines
    ELSE
    LET translation_idx == indices[idx]
        key == keys[idx]
        translated_text ==
            escape_messageformat_if_needed(get(source_translations, key, <<>>),
                                           translations[idx])
        updated ==
            IF translation_idx < Len(parsed_lines)
            THEN [parsed_lines EXCEPT ![translation_idx + 1].value = translated_text]
            ELSE Append(parsed_lines,
                        entry(key, translated_text, translated_text,
                              translation_idx, FALSE, <<"=">>))
    IN  integrate_translations_from(idx + 1, updated, translations, indices,
                                    keys, source_translations)

integrate_translations(parsed_lines, translations, indices, keys, source_translations) ==
    integrate_translations_from(1, parsed_lines, translations, indices, keys,
                                source_translations)

\* build_file_key_ledger
build_file_key_ledger(source_translations, final_translations) ==
    JsonObject([key \in DOMAIN final_translations |->
        JsonObject([field \in {"source_hash", "target_hash"} |->
            IF field = "source_hash"
            THEN compute_ledger_hash(get(source_translations, key, <<>>))
            ELSE compute_ledger_hash(final_translations[key])])])

\* dict.update
update(d, e) ==
    [k \in DOMAIN d \cup DOMAIN e |-> IF k \in DOMAIN e THEN e[k] ELSE d[k]]

\* the items of the dict built by "for line in lines: if entry and key:
\* d[key] = line['value']": keys in the order of their first line, each
\* with the value of its last line
final_translations_of(lines) ==
    LET E == {i \in 1..Len(lines) : is_entry(lines[i]) /\ lines[i].key # <<>>}
        first == {i \in E : \A j \in E : lines[j].key = lines[i].key => j >= i}
        order == SelectSeqIdx(lines, first)
    IN  [j \in 1..Len(order) |->
            <<order[j].key,
              lines[Max({i \in E : lines[i].key = order[j].key})].value>>]

\* keys_to_translate[i:i + HOLISTIC_REVIEW_CHUNK_SIZE] for i in range(...)
key_chunks_of(keys_to_translate, size) ==
    [c \in 1..((Len(keys_to_translate) + size - 1) \div size) |->
        SubSeq(keys_to_translate, (c - 1) * size + 1,
               Min({c * size, Len(keys_to_translate)}))]

\* the loop over zip(review_results, key_chunks): a chunk whose review
\* returned None or an empty dict keeps its draft values
final_corrected_translations_of(review_results, key_chunks, draft_translations) ==
    LET n == Min({Len(review_results), Len(key_chunks)})
        F[c \in 0..n] ==
            IF c = 0 THEN <<>>
            ELSE LET corrected_chunk == review_results[c]
                     key_chunk == key_chunks[c]
                 IN  IF corrected_chunk.kind = "dict"
                            /\ DOMAIN corrected_chunk.corrections # {}
                     THEN update(F[c - 1], corrected_chunk.corrections)
                     ELSE update(F[c - 1],
                              [k \in {key_chunk[j] : j \in 1..Len(key_chunk)} |->
                                  get(draft_translations, k, <<>>)])
    IN  F[n]

\* "for line in draft_lines: if entry and key in d: line['value'] = d[key]"
apply_translations(lines, d) ==
    [i \in 1..Len(lines) |->
        IF is_entry(lines[i]) /\ lines[i].key \in DOMAIN d
        THEN [lines[i] EXCEPT !.value = d[lines[i].key]]
        ELSE lines[i]]

\* the same with the test "key and key in valid_translations"
apply_valid_translations(lines, valid_translations) ==
    [i \in 1..Len(lines) |->
        IF is_entry(lines[i]) /\ lines[i].key # <<>>
               /\ lines[i].key \in DOMAIN valid_translations
        THEN [lines[i] EXCEPT !.value = valid_translations[lines[i].key]]
        ELSE lines[i]]

\* a bug: the ledger is never written
saved_ledger_file_not_written(dry_run, ledger_file, key_ledger) == ledger_file

\* save_translation_key_ledger as one step: the file at the ledger path
\* after the call.  Only the "files" member of the payload is kept.
saved_ledger_file(dry_run, ledger_file, key_ledger) ==
    IF dry_run THEN ledger_file
    ELSE [state |-> "json", payload |-> JsonObject("files" :> key_ledger)]

\* a bug: the entries are merged into the ones the ledger already has for
\* the file
with_file_entries_merged(key_ledger, translation_file, entries) ==
    JsonObject(update(key_ledger.members, translation_file :>
        JsonObject(update(get(key_ledger.members, translation_file, EmptyDict).members,
                          entries.members))))

\* key_ledger[translation_file] = entries
with_file_entries(key_ledger, translation_file, entries) ==
    JsonObject(update(key_ledger.members, translation_file :> entries))

----------------------------------------------------------------------------
(* The queue specification: process_translation_queue over two target      *)
(* files of one source file, with every behaviour of the translator and    *)
(* of the reviewer.                                                        *)

HOLISTIC_REVIEW_CHUNK_SIZE == 1

\* the number of times main() is run
MaxRuns == 2

properties_files == <<"app_de.properties", "app_fr.properties">>

\* app.properties:  a={0}  n=a
QueueSource == TextFile(<<"a", "=", "{", "0", "}", NL, "n", "=", "a", NL>>)

\* the first target file of the queue: in step with the source, empty,
\* a placeholder lost and a key missing, an invalid escape, a key missing,
\* unreadable, not UTF-8, a key the source no longer has
FirstTargets ==
    { TextFile(<<"a", "=", "{", "0", "}", NL, "n", "=", "n", NL>>),
      TextFile(<<"a", "=", "{", "0", "}", NL, "n", "=", "n", NL, "o", "=", "n", NL>>),
      TextFile(<<>>),
      TextFile(<<"a", "=", "a", NL>>),
      TextFile(<<"a", "=", "{", "0", "}", NL, "n", "=", BS, "q", NL>>),
      TextFile(<<"a", "=", "{", "0", "}", NL>>),
      [state |-> "unreadable", text |-> <<>>],
      [state |-> "not_utf8", text |-> <<>>] }

\* the second target file of the queue
SecondTargets ==
    { TextFile(<<"a", "=", "{", "0", "}", NL, "n", "=", "n", NL>>),
      TextFile(<<"a", "=", "{", "0", "}", NL>>),
      TextFile(<<"a", "=", "a", NL>>) }

\* the ledger of an earlier run, made when the source value of n was "n"
\* and the source had one more key, o
EarlierLedger ==
    LET earlier == (<<"a">> :> <<"{", "0", "}">>) @@ (<<"n">> :> <<"n">>)
                       @@ (<<"o">> :> <<"n">>)
    IN  JsonObject([f \in {properties_files[i] : i \in 1..Len(properties_files)} |->
                       build_file_key_ledger(earlier, earlier)])

QueueLedgerFiles ==
    { [state |-> "missing"],
      [state |-> "json", payload |-> JsonObject("files" :> EarlierLedger)] }

\* what a translation request may come back as, after the placeholders are
\* restored and the text is cleaned; a failed request gives back the text
TranslationOutcomes(text) == {text, <<"n">>, <<"{", "0", "}", "n">>}

\* what holistic_review_async may do for a chunk: raise, return None,
\* return no corrections, or return corrections for some key; one
\* correction is a text of two lines
ReviewOutcomes ==
    { [kind |-> "raise", corrections |-> <<>>],
      [kind |-> "None", corrections |-> <<>>],
      [kind |-> "dict", corrections |-> <<>>],
      [kind |-> "dict", corrections |-> <<"n">> :> <<"n", NL, "n">>] }
    \cup { [kind |-> "dict", corrections |-> k :> v] :
              k \in {<<"a">>, <<"n">>}, v \in {<<"n">>, <<"{", "0", "}", "n">>} }

\* the orders a set may be iterated in
Orders(S) ==
    {o \in [1..Cardinality(S) -> S] : \A i, j \in DOMAIN o : o[i] = o[j] => i = j}

\* the variables of one pass of the loop over properties_files
NoFile ==
    [newly_added_keys |-> {}, parsed_lines |-> <<>>,
     source_translations |-> <<>>, target_translations |-> <<>>,
     texts_to_translate |-> <<>>, indices |-> <<>>, keys_to_translate |-> <<>>,
     results |-> <<>>, draft_lines |-> <<>>, draft_translations |-> <<>>,
     review_results |-> <<>>, valid_translations |-> <<>>,
     failed_keys |-> <<>>, new_file_content |-> <<>>]

\* The state before process_translation_queue is called for the first time.
\* INPUT_FOLDER holds the files that were copied to the queue.  The fields
\* input, validated, processed, requests and failed_requests record what
\* the current run was given and what it did; the program does not read them.
QueueInit ==
    \E first \in FirstTargets, second \in SecondTargets,
       ledger_file \in QueueLedgerFiles, dry \in BOOLEAN, flag \in BOOLEAN :
        queue = [pc |-> "start", DRY_RUN |-> dry,
                 RETRANSLATE_IDENTICAL_SOURCE_STRINGS |-> flag,
                 run |-> 1,
                 INPUT_FOLDER |->
                     (properties_files[1] :> first) @@ (properties_files[2] :> second),
                 input |-> [translation_queue_folder |->
                                (properties_files[1] :> first)
                                    @@ (properties_files[2] :> second),
                            ledger_file |-> ledger_file,
                            completed |-> {}],
                 translation_queue_folder |->
                     (properties_files[1] :> first) @@ (properties_files[2] :> second),
                 source_file |-> QueueSource,
                 translated_queue_folder |-> <<>>,
                 ledger_file |-> ledger_file,
                 key_ledger |-> EmptyDict,
                 next |-> 1,
                 processed_files_count |-> 0,
                 skipped_files |-> <<>>,
                 requests |-> {},
                 failed_requests |-> {},
                 validated |-> <<>>,
                 processed |-> <<>>,
                 file |-> NoFile]

translation_file == properties_files[queue.next]

\* "continue", or the end of the loop body: the next file, or the end of
\* the loop
next_file(q) ==
    [q EXCEPT !.next = @ + 1, !.file = NoFile,
              !.pc = IF q.next + 1 > Len(properties_files)
                     THEN "finish" ELSE "prevalidate"]

\* the glossary and the ledger are loaded, the loop begins
StartQueue ==
    /\ queue.pc = "start"
    /\ queue' = [queue EXCEPT
                    !.pc = "prevalidate",
                    !.key_ledger = load_translation_key_ledger(queue.ledger_file)]

\* a bug: the errors of run_pre_translation_validation are recorded but the
\* file is processed all the same
PreValidateWithoutSkip ==
    /\ queue.pc = "prevalidate"
    /\ \E iteration \in
             Orders(DOMAIN translations_of(parse_properties_file(queue.source_file.text))) :
      \E r \in {run_pre_translation_validation(
                     queue.translation_queue_folder[translation_file],
                     queue.source_file, iteration)} :
        queue' =
           IF r.outcome = "raise" THEN [queue EXCEPT !.pc = "aborted"]
           ELSE [queue EXCEPT
                    !.pc = "lint",
                    !.translation_queue_folder[translation_file] = r.target_file,
                    !.validated = update(@, translation_file :>
                                      [errors |-> r.errors,
                                       newly_added_keys |-> r.newly_added_keys]),
                    !.skipped_files =
                        IF r.errors # <<>>
                        THEN update(@, translation_file :> r.errors) ELSE @,
                    !.file.newly_added_keys = r.newly_added_keys]

\* run_pre_translation_validation and the skip on its errors
PreValidate ==
    /\ queue.pc = "prevalidate"
    /\ \E iteration \in
             Orders(DOMAIN translations_of(parse_properties_file(queue.source_file.text))) :
      \E r \in {run_pre_translation_validation(
                     queue.translation_queue_folder[translation_file],
                     queue.source_file, iteration)} :
        LET q == [queue EXCEPT
                     !.translation_queue_folder[translation_file] = r.target_file,
                     !.validated = update(@, translation_file :>
                                       [errors |-> r.errors,
                                        newly_added_keys |-> r.newly_added_keys])]
        IN  queue' =
               IF r.outcome = "raise" THEN [queue EXCEPT !.pc = "aborted"]
               ELSE IF r.errors # <<>>
               THEN next_file([q EXCEPT
                       !.skipped_files = update(@, translation_file :> r.errors)])
               ELSE [q EXCEPT !.pc = "lint",
                              !.file.newly_added_keys = r.newly_added_keys]

\* lint_properties_file and the skip on its errors
Lint ==
    /\ queue.pc = "lint"
    /\ \E lint_errors \in
              {lint_properties_file(queue.translation_queue_folder[translation_file])} :
           queue' =
              IF lint_errors # <<>>
              THEN next_file([queue EXCEPT
                      !.skipped_files = update(@, translation_file :> lint_errors)])
              ELSE [queue EXCEPT !.pc = "extract"]

\* both files are parsed and the texts to translate are extracted; with
\* none, the ledger entries of the file are refreshed and saved
Extract ==
    /\ queue.pc = "extract"
    /\ \E parsed_lines \in {parse_properties_file(
                 queue.translation_queue_folder[translation_file].text)},
          source_translations \in
              {translations_of(parse_properties_file(queue.source_file.text))} :
       \E target_translations \in {translations_of(parsed_lines)},
          file_ledger_entries \in
              {get(queue.key_ledger.members, translation_file, EmptyDict)} :
       \E r \in {extract_texts_to_translate(parsed_lines, source_translations,
                     queue.file.newly_added_keys, file_ledger_entries,
                     queue.RETRANSLATE_IDENTICAL_SOURCE_STRINGS)},
          key_ledger \in {with_file_entries(queue.key_ledger, translation_file,
                              build_file_key_ledger(source_translations,
                                                    target_translations))} :
           queue' =
              IF r.raised THEN [queue EXCEPT !.pc = "aborted"]
              ELSE IF r.texts = <<>>
              THEN next_file([queue EXCEPT
                      !.key_ledger = key_ledger,
                      !.ledger_file = saved_ledger_file(queue.DRY_RUN,
                                          queue.ledger_file, key_ledger),
                      !.processed = update(@, translation_file :>
                          [final_translations |-> target_translations,
                           failed_keys |-> <<>>,
                           keys_to_translate |-> <<>>,
                           previous_entries |-> file_ledger_entries,
                           written |-> FALSE])])
              ELSE [queue EXCEPT
                      !.pc = "translate",
                      !.file.parsed_lines = parsed_lines,
                      !.file.source_translations = source_translations,
                      !.file.target_translations = target_translations,
                      !.file.texts_to_translate = r.texts,
                      !.file.indices = r.indices,
                      !.file.keys_to_translate = r.keys]

\* one of the concurrent translate_text_async tasks completes, in any
\* order.  A dry run gives the text back without a request.  A request
\* that failed (exception, retries exhausted, empty content) gives the
\* text back too and is recorded in failed_requests.
TranslateKey ==
    /\ queue.pc = "translate"
    /\ \E idx \in 0..(Len(queue.file.texts_to_translate) - 1) :
        /\ \A j \in 1..Len(queue.file.results) : queue.file.results[j][1] # idx
        /\ LET text == at0(queue.file.texts_to_translate, idx)
               key == at0(queue.file.keys_to_translate, idx)
           IN  \E result \in IF queue.DRY_RUN THEN {text}
                             ELSE TranslationOutcomes(text) :
                 queue' = [queue EXCEPT
                     !.file.results = Append(@, <<idx, result>>),
                     !.requests =
                         IF queue.DRY_RUN THEN @
                         ELSE @ \cup {<<"translate", translation_file, key>>},
                     !.failed_requests =
                         IF queue.DRY_RUN \/ result # text THEN @
                         ELSE @ \cup {<<translation_file, key>>}]

\* a bug: the results are integrated in the order of completion
IntegrateInCompletionOrder ==
    /\ queue.pc = "translate"
    /\ Len(queue.file.results) = Len(queue.file.texts_to_translate)
    /\ \E translations \in
              {[i \in 1..Len(queue.file.results) |-> queue.file.results[i][2]]} :
       \E draft_lines \in {integrate_translations(queue.file.parsed_lines,
                               translations, queue.file.indices,
                               queue.file.keys_to_translate,
                               queue.file.source_translations)} :
       \E draft_content \in {reassemble_file(draft_lines)} :
           queue' = [queue EXCEPT
               !.pc = "review",
               !.file.draft_lines = draft_lines,
               !.file.draft_translations =
                   translations_of(parse_properties_file(draft_content))]

\* the results are sorted by index and integrated; the draft is
\* reassembled and parsed again for the review
Integrate ==
    /\ queue.pc = "translate"
    /\ Len(queue.file.results) = Len(queue.file.texts_to_translate)
    /\ \E translations \in
              {[i \in 1..Len(queue.file.results) |->
                   queue.file.results[CHOOSE j \in 1..Len(queue.file.results) :
                                         queue.file.results[j][1] = i - 1][2]]} :
       \E draft_lines \in {integrate_translations(queue.file.parsed_lines,
                               translations, queue.file.indices,
                               queue.file.keys_to_translate,
                               queue.file.source_translations)} :
       \E draft_content \in {reassemble_file(draft_lines)} :
           queue' = [queue EXCEPT
               !.pc = "review",
               !.file.draft_lines = draft_lines,
               !.file.draft_translations =
                   translations_of(parse_properties_file(draft_content))]

key_chunks == key_chunks_of(queue.file.keys_to_translate, HOLISTIC_REVIEW_CHUNK_SIZE)

\* holistic_review_async of the next chunk.  A dry run returns {} without
\* a request; an exception leaves asyncio.gather and the function.
ReviewChunk ==
    /\ queue.pc = "review"
    /\ Len(queue.file.review_results) < Len(key_chunks)
    /\ \E outcome \in IF queue.DRY_RUN
                      THEN {[kind |-> "dict", corrections |-> <<>>]}
                      ELSE ReviewOutcomes :
        LET q == [queue EXCEPT
                     !.requests =
                         IF queue.DRY_RUN THEN @
                         ELSE @ \cup {<<"review", translation_file,
                                        key_chunks[Len(queue.file.review_results) + 1]>>}]
        IN  queue' =
               IF outcome.kind = "raise" THEN [q EXCEPT !.pc = "aborted"]
               ELSE [q EXCEPT !.file.review_results = Append(@, outcome)]

\* the review results are applied to the draft, every key is validated
\* and failed keys are reverted, the final content is reassembled
Validate ==
    /\ queue.pc = "review"
    /\ Len(queue.file.review_results) = Len(key_chunks)
    /\ \E final_corrected_translations \in
              {final_corrected_translations_of(queue.file.review_results,
                   key_chunks, queue.file.draft_translations)} :
       \E reviewed_lines \in
              {apply_translations(queue.file.draft_lines,
                                  final_corrected_translations)} :
       \E final_translations \in {final_translations_of(reviewed_lines)} :
       \E v \in {run_per_key_validation(final_translations,
                                        queue.file.source_translations)} :
       \E updated_lines \in
              {apply_valid_translations(reviewed_lines, v.valid_translations)} :
           queue' = [queue EXCEPT
               !.pc = "write",
               !.file.draft_lines = updated_lines,
               !.file.valid_translations = v.valid_translations,
               !.file.failed_keys = v.failed_keys,
               !.file.new_file_content = reassemble_file(updated_lines)]

\* the final content is written unless this is a dry run; the ledger
\* entries of the file are replaced and the ledger is saved
WriteFile ==
    /\ queue.pc = "write"
    /\ \E key_ledger \in
              {with_file_entries(queue.key_ledger, translation_file,
                   build_file_key_ledger(queue.file.source_translations,
                                         queue.file.valid_translations))} :
           queue' = next_file([queue EXCEPT
               !.translated_queue_folder =
                   IF queue.DRY_RUN THEN @
                   ELSE update(@, translation_file :> queue.file.new_file_content),
               !.key_ledger = key_ledger,
               !.ledger_file = saved_ledger_file(queue.DRY_RUN, queue.ledger_file,
                                                 key_ledger),
               !.processed = update(@, translation_file :>
                   [final_translations |-> queue.file.valid_translations,
                    failed_keys |-> queue.file.failed_keys,
                    keys_to_translate |-> queue.file.keys_to_translate,
                    previous_entries |->
                        get(queue.key_ledger.members, translation_file, EmptyDict),
                    written |-> ~queue.DRY_RUN]),
               !.processed_files_count = @ + 1])

\* the last save and the return
FinishQueue ==
    /\ queue.pc = "finish"
    /\ queue' = [queue EXCEPT
                    !.pc = "done",
                    !.ledger_file = saved_ledger_file(queue.DRY_RUN,
                                        queue.ledger_file, queue.key_ledger)]

\* main() after the queue was processed, and main() again with the same
\* files to process: the translated files are copied back over the files of
\* INPUT_FOLDER, the queue folders are removed, the files are copied from
\* INPUT_FOLDER to the queue and the queue is processed again.  A dry run
\* copies and removes nothing.
RunAgain ==
    /\ queue.pc = "done"
    /\ queue.run < MaxRuns
    /\ \E input_folder \in
              {IF queue.DRY_RUN THEN queue.INPUT_FOLDER
               ELSE update(queue.INPUT_FOLDER,
                           [f \in DOMAIN queue.translated_queue_folder |->
                               TextFile(queue.translated_queue_folder[f])])} :
       \E folder \in {IF queue.DRY_RUN THEN queue.translation_queue_folder
                       ELSE input_folder} :
           queue' = [queue EXCEPT
               !.pc = "start",
               !.run = @ + 1,
               !.INPUT_FOLDER = input_folder,
               !.input = [translation_queue_folder |-> folder,
                          ledger_file |-> queue.ledger_file,
                          completed |-> DOMAIN queue.processed],
               !.translation_queue_folder = folder,
               !.translated_queue_folder =
                   IF queue.DRY_RUN THEN @ ELSE <<>>,
               !.next = 1,
               !.processed_files_count = 0,
               !.skipped_files = <<>>,
               !.requests = {},
               !.failed_requests = {},
               !.validated = <<>>,
               !.processed = <<>>,
               !.file = NoFile]

SpecQueueInit ==
    /\ QueueInit
    /\ parser = Idle /\ sync = Idle /\ validator = Idle
    /\ extraction = Idle /\ ledger_io = Idle

SpecQueueNext ==
    \/ StartQueue /\ UNCHANGED <<parser, sync, validator, extraction, ledger_io>>
    \/ PreValidate /\ UNCHANGED <<parser, sync, validator, extraction, ledger_io>>
    \/ Lint /\ UNCHANGED <<parser, sync, validator, extraction, ledger_io>>
    \/ Extract /\ UNCHANGED <<parser, sync, validator, extraction, ledger_io>>
    \/ TranslateKey /\ UNCHANGED <<parser, sync, validator, extraction, ledger_io>>
    \/ Integrate /\ UNCHANGED <<parser, sync, validator, extraction, ledger_io>>
    \/ ReviewChunk /\ UNCHANGED <<parser, sync, validator, extraction, ledger_io>>
    \/ Validate /\ UNCHANGED <<parser, sync, validator, extraction, ledger_io>>
    \/ WriteFile /\ UNCHANGED <<parser, sync, validator, extraction, ledger_io>>
    \/ FinishQueue /\ UNCHANGED <<parser, sync, validator, extraction, ledger_io>>
    \/ RunAgain /\ UNCHANGED <<parser, sync, validator, extraction, ledger_io>>

SpecQueue == SpecQueueInit /\ [][SpecQueueNext]_vars

\* the requests issued for a file
RequestsFor(f) == {r \in queue.requests : r[2] = f}

\* the keys of a file's text
KeysOfText(text) == DOMAIN translations_of(parse_properties_file(text))

\* C5: whenever run_pre_translation_validation returns errors for a file,
\* no translation request and no review request is ever issued for it, no
\* output file is written for it, the skipped-files report holds exactly
\* those errors for it, and the keys returned with the errors are the keys
\* the synchronization added to the file (none when the file could not be
\* read).
FailClosedPreValidation ==
    /\ [](\A f \in DOMAIN queue.validated :
             queue.validated[f].errors # <<>> =>
                 /\ RequestsFor(f) = {}
                 /\ f \notin DOMAIN queue.translated_queue_folder
                 /\ f \in DOMAIN queue.skipped_files
                 /\ queue.skipped_files[f] = queue.validated[f].errors)
    /\ [][\A f \in DOMAIN queue'.validated \ DOMAIN queue.validated :
             queue'.validated[f].errors # <<>> =>
                 queue'.validated[f].newly_added_keys =
                     IF queue.translation_queue_folder[f].state = "text"
                     THEN KeysOfText(queue.source_file.text)
                              \ KeysOfText(queue.translation_queue_folder[f].text)
                     ELSE {}]_vars

\* C5 witness: a run that ended with a file skipped on its validation
\* errors, a key having been added to it, while the other file of the
\* queue was translated, reviewed and written.
FailClosedPreValidationWitness ==
    /\ queue.pc = "done"
    /\ \E f \in DOMAIN queue.validated, g \in DOMAIN queue.translated_queue_folder :
          /\ queue.validated[f].errors # <<>>
          /\ queue.validated[f].newly_added_keys # {}
          /\ f \in DOMAIN queue.skipped_files
          /\ \E r \in RequestsFor(g) : r[1] = "translate"
          /\ \E r \in RequestsFor(g) : r[1] = "review"

\* the entries of a file in the ledger file on disk
SavedEntries(f) == queue.ledger_file.payload.members["files"].members[f]

CompletedFilesOnDisk ==
    \A f \in DOMAIN queue.processed :
        /\ queue.ledger_file.state = "json"
        /\ f \in DOMAIN queue.ledger_file.payload.members["files"].members
        /\ SavedEntries(f) = build_file_key_ledger(
                                 translations_of(parse_properties_file(
                                     queue.source_file.text)),
                                 queue.processed[f].final_translations)

\* the ledger in memory is loaded in the first step of a run and never again: a
\* later step changes at most the entries of the file being processed
LoadedOnce ==
    [][IF queue.pc = "start"
       THEN queue'.key_ledger = load_translation_key_ledger(queue.ledger_file)
       ELSE \A g \in DOMAIN queue.key_ledger.members :
               (queue.next > Len(properties_files) \/ g # properties_files[queue.next])
                   => /\ g \in DOMAIN queue'.key_ledger.members
                      /\ queue'.key_ledger.members[g] = queue.key_ledger.members[g]]_vars

UnreadableFileIsolated ==
    \A i \in 1..Len(properties_files) :
        LET f == properties_files[i]
        IN  queue.translation_queue_folder[f].state \in {"unreadable", "not_utf8"} =>
               /\ ~(queue.pc = "aborted" /\ queue.next = i)
               /\ i < queue.next =>
                     /\ f \in DOMAIN queue.skipped_files
                     /\ f \notin DOMAIN queue.translated_queue_folder
               /\ queue.pc = "done" =>
                     \A g \in DOMAIN queue.translation_queue_folder \ {f} :
                         g \in DOMAIN queue.validated

\* the index of a file in the queue
IndexOf(f) == CHOOSE i \in 1..Len(properties_files) : properties_files[i] = f

\* C15: when the translation request of a key failed, then, once the
\* processing of its file has ended, the file is written, the value
\* written for the key is the source text, and the key is not among the
\* keys that failed per-key validation.
FailedTranslationKeepsSource ==
    \A r \in queue.failed_requests :
        LET f == r[1]
            k == r[2]
            i == IndexOf(f)
        IN  (i < queue.next \/ (i = queue.next /\ queue.pc = "aborted")) =>
               /\ f \in DOMAIN queue.translated_queue_folder
               /\ translations_of(parse_properties_file(
                      queue.translated_queue_folder[f]))[k]
                     = translations_of(parse_properties_file(
                           queue.source_file.text))[k]
               /\ f \in DOMAIN queue.processed
               /\ \A j \in 1..Len(queue.processed[f].failed_keys) :
                      queue.processed[f].failed_keys[j] # k

\* C16: in whatever order the translation requests of a file completed,
\* the draft holds, on the line of the i-th request, the result of the i-th
\* request (escaped for MessageFormat where the source has a placeholder).
CompletionOrderIndependence ==
    (queue.pc = "review" /\ queue.file.review_results = <<>>) =>
        \A j \in 1..Len(queue.file.results) :
            LET idx == queue.file.results[j][1]
                key == at0(queue.file.keys_to_translate, idx)
            IN  /\ at0(queue.file.draft_lines, at0(queue.file.indices, idx)).key = key
                /\ at0(queue.file.draft_lines, at0(queue.file.indices, idx)).value
                      = escape_messageformat_if_needed(
                            get(queue.file.source_translations, key, <<>>),
                            queue.file.results[j][2])

\* C16 witness: two requests of a file completed in the reverse order with
\* different results, and each result is on the line of its own key.
CompletionOrderIndependenceWitness ==
    /\ queue.pc = "review" /\ queue.file.review_results = <<>>
    /\ Len(queue.file.results) = 2
    /\ queue.file.results[1][1] = 1 /\ queue.file.results[2][1] = 0
    /\ queue.file.results[1][2] # queue.file.results[2][2]
    /\ at0(queue.file.draft_lines, at0(queue.file.indices, 1)).value
          = queue.file.results[1][2]

\* a run was given file f with the same keys as the source file and a
\* ledger that holds, for every key of f, the hash of the current source
\* value
NoOpInput(f) ==
    /\ queue.input.translation_queue_folder[f].state = "text"
    /\ KeysOfText(queue.input.translation_queue_folder[f].text)
          = KeysOfText(queue.source_file.text)
    /\ LET ledger == load_translation_key_ledger(queue.input.ledger_file)
           source_translations ==
               translations_of(parse_properties_file(queue.source_file.text))
       IN  /\ f \in DOMAIN ledger.members
           /\ \A k \in KeysOfText(queue.input.translation_queue_folder[f].text) :
                 /\ k \in DOMAIN ledger.members[f].members
                 /\ ledger.members[f].members[k].members["source_hash"]
                       = compute_ledger_hash(source_translations[k])

\* nothing is selected for file f, no request is made for it and the file
\* is as the run found it
NoOpFile(f) ==
    /\ RequestsFor(f) = {}
    /\ ~(queue.next = IndexOf(f) /\ queue.pc \in {"translate", "review", "write"})
    /\ queue.translation_queue_folder[f] = queue.input.translation_queue_folder[f]
    /\ f \notin DOMAIN queue.translated_queue_folder

\* a run with a matching ledger selects nothing: every file given with
\* the keys of the source and matching source hashes gets no request and
\* stays as it was
NoOpRunWithMatchingLedger ==
    \A i \in 1..Len(properties_files) :
        NoOpInput(properties_files[i]) => NoOpFile(properties_files[i])

\* C17: a run on a file that has the same keys as the source file, with a
\* ledger holding a matching source hash for every key, selects no key,
\* makes no request and leaves the file byte-identical; and for every file
\* that a completed run processed, the next run with the same source file
\* is such a run.
NoOpRun ==
    /\ NoOpRunWithMatchingLedger
    /\ queue.run > 1 => \A f \in queue.input.completed : NoOpInput(f)

\* the first half of C17 holds when retranslate_identical_source_strings
\* is off: the flag selects a key whose value equals the source value
\* whatever the ledger holds
NoOpRunWithFlagOff ==
    ~queue.RETRANSLATE_IDENTICAL_SOURCE_STRINGS => NoOpRunWithMatchingLedger

\* the second half of C17 fails with the flag off and outside a dry run
\* too: a file from which synchronization removed a key and for which
\* nothing was selected is not written, the original keeps the key and
\* the next run removes it from the queue copy again
SecondRunWithFlagOff ==
    (queue.run > 1 /\ ~queue.DRY_RUN /\ ~queue.RETRANSLATE_IDENTICAL_SOURCE_STRINGS)
        => \A f \in queue.input.completed : NoOpInput(f)

\* C18: after a file is written and the ledger is saved, for every key
\* of the file the source_hash of the saved ledger is the hash of the
\* current source value and the target_hash is the hash of the value that
\* parsing the written file gives for the key.
LedgerMatchesWritten ==
    \A f \in DOMAIN queue.translated_queue_folder :
        (~queue.DRY_RUN /\ f \in DOMAIN queue.processed) =>
            LET written == translations_of(parse_properties_file(
                               queue.translated_queue_folder[f]))
                source_translations ==
                    translations_of(parse_properties_file(queue.source_file.text))
            IN  /\ queue.ledger_file.state = "json"
                /\ f \in DOMAIN queue.ledger_file.payload.members["files"].members
                /\ \A k \in DOMAIN written :
                      /\ k \in DOMAIN SavedEntries(f).members
                      /\ SavedEntries(f).members[k].members["source_hash"]
                            = compute_ledger_hash(get(source_translations, k, <<>>))
                      /\ SavedEntries(f).members[k].members["target_hash"]
                            = compute_ledger_hash(written[k])

\* the keys that extract_texts_to_translate selected for a processed file
SelectedFor(f) ==
    {queue.processed[f].keys_to_translate[i] :
        i \in 1..Len(queue.processed[f].keys_to_translate)}

\* C22: in a written file every key that was not selected for translation
\* has the value it had in the synchronized target, whatever the
\* translation calls and the review returned.
OnlySelectedKeysChange ==
    \A f \in DOMAIN queue.translated_queue_folder :
        (f \in DOMAIN queue.processed /\ queue.processed[f].written) =>
            LET before == translations_of(parse_properties_file(
                              queue.translation_queue_folder[f].text))
                after == translations_of(parse_properties_file(
                             queue.translated_queue_folder[f]))
            IN  \A k \in DOMAIN before \ SelectedFor(f) :
                    k \in DOMAIN after /\ after[k] = before[k]

\* the processing of the i-th file of the queue has ended
Ended(i) == i < queue.next \/ (i = queue.next /\ queue.pc = "aborted")

\* C4: a file for which pre-translation validation returned no errors is
\* written to the translated output by the time its processing ends; no
\* later step ends it skipped or unwritten.
AlwaysWrittenAfterPreValidation ==
    \A i \in 1..Len(properties_files) :
        LET f == properties_files[i]
        IN  (/\ f \in DOMAIN queue.validated
             /\ queue.validated[f].errors = <<>>
             /\ Ended(i))
                => f \in DOMAIN queue.translated_queue_folder

----------------------------------------------------------------------------
(* The write specification: the end of one pass of the loop of             *)
(* process_translation_queue, from the corrected translations of the       *)
(* review stage to the written file, for any corrected translations.       *)

\* a source file and the synchronized draft of a target file with the
\* same keys
WriteInputs ==
    { [source |-> <<"a", "=", "{", "0", "}", NL, "n", "=", "a", NL>>,
       draft |-> <<"a", "=", "{", "0", "}", NL, "n", "=", "n", NL>>],
      [source |-> <<"n", "=", "a", NL, "a", "=", "{", "0", "}", NL>>,
       draft |-> <<"n", "=", "n", NL, "a", "=", "{", "0", "}", NL>>] }

\* the values the review stage may give a key: a text, a text that ends
\* in a backslash, a text with the placeholder, a text of two lines
WriteValues ==
    { <<"n">>, <<"n", BS>>, <<"{", "0", "}", "n">>, <<"n", NL, "n">> }

WriteInit ==
    \E in \in WriteInputs, dry \in BOOLEAN,
       d \in Dicts({<<"a">>, <<"n">>}, WriteValues) :
        validator = [pc |-> "corrected", DRY_RUN |-> dry,
                     source_translations |->
                         translations_of(parse_properties_file(in.source)),
                     draft_lines |-> parse_properties_file(in.draft),
                     final_corrected_translations |-> d,
                     valid_translations |-> <<>>, failed_keys |-> <<>>,
                     translated_file |-> [state |-> "missing", text |-> <<>>]]

\* the corrected translations are applied to the lines of the draft
ApplyCorrections ==
    /\ validator.pc = "corrected"
    /\ validator' = [validator EXCEPT
           !.pc = "reviewed",
           !.draft_lines = apply_translations(@, validator.final_corrected_translations)]

\* every key is validated and the validated values are applied
PerKeyValidation ==
    /\ validator.pc = "reviewed"
    /\ \E v \in {run_per_key_validation(final_translations_of(validator.draft_lines),
                                        validator.source_translations)} :
           validator' = [validator EXCEPT
               !.pc = "validated",
               !.valid_translations = v.valid_translations,
               !.failed_keys = v.failed_keys,
               !.draft_lines = apply_valid_translations(@, v.valid_translations)]

\* the file is reassembled and, unless this is a dry run, written
WriteTranslatedFile ==
    /\ validator.pc = "validated"
    /\ validator' = [validator EXCEPT
           !.pc = "written",
           !.translated_file =
               IF validator.DRY_RUN THEN @
               ELSE TextFile(reassemble_file(validator.draft_lines))]

SpecWriteInit ==
    /\ WriteInit
    /\ parser = Idle /\ sync = Idle /\ extraction = Idle
    /\ ledger_io = Idle /\ queue = Idle

SpecWriteNext ==
    \/ ApplyCorrections /\ UNCHANGED <<parser, sync, extraction, ledger_io, queue>>
    \/ PerKeyValidation /\ UNCHANGED <<parser, sync, extraction, ledger_io, queue>>
    \/ WriteTranslatedFile /\ UNCHANGED <<parser, sync, extraction, ledger_io, queue>>

SpecWrite == SpecWriteInit /\ [][SpecWriteNext]_vars

\* C21: each key of a written file has a value whose placeholders, as a
\* multiset, are those of the source value of the key, whatever the
\* translator and the reviewer returned.
WrittenPlaceholdersIntact ==
    validator.translated_file.state = "text" =>
        LET written == translations_of(parse_properties_file(
                           validator.translated_file.text))
        IN  \A k \in DOMAIN written :
                SameMultiset(get(validator.source_translations, k, <<>>), written[k])

----------------------------------------------------------------------------
(* The quote specification: one pass of the loop of                        *)
(* process_translation_queue for a target whose keys were all added by     *)
(* synchronization, from the translation results to the written file,     *)
(* with results and review corrections that hold single quotes.            *)

\* what a translation request may return for a key
QuoteTranslations ==
    { <<"{", "0", "}", "'">>, <<"n", "'">>, <<"{", "0", "}", "'", "'">>, <<"n">> }

\* what holistic_review_async may do for a chunk: raise, return None,
\* return no corrections, or return a correction for some key
QuoteReviewOutcomes ==
    { [kind |-> "raise", corrections |-> <<>>],
      [kind |-> "None", corrections |-> <<>>],
      [kind |-> "dict", corrections |-> <<>>] }
    \cup { [kind |-> "dict", corrections |-> k :> v] :
              k \in {<<"a">>, <<"n">>},
              v \in {<<"{", "0", "}", "'">>, <<"n", "'">>} }

\* the state after the translation tasks were gathered and sorted: every
\* key of the source was selected; a dry run returns the source texts
QuoteInit ==
    \E in \in WriteInputs, dry \in BOOLEAN :
    \E parsed_lines \in {parse_properties_file(in.source)} :
    \E source_translations \in {translations_of(parsed_lines)} :
    \E x \in {extract_texts_to_translate(parsed_lines, source_translations,
                   DOMAIN source_translations, EmptyDict, FALSE)} :
    \E translations \in [1..Len(x.keys) -> QuoteTranslations] \cup {x.texts} :
        /\ dry => translations = x.texts
        /\ validator = [pc |-> "translated", DRY_RUN |-> dry,
                        source_translations |-> source_translations,
                        parsed_lines |-> parsed_lines,
                        indices |-> x.indices,
                        keys_to_translate |-> x.keys,
                        translations |-> translations,
                        draft_lines |-> <<>>, draft_translations |-> <<>>,
                        review_results |-> <<>>,
                        final_corrected_translations |-> <<>>,
                        valid_translations |-> <<>>, failed_keys |-> <<>>,
                        translated_file |-> [state |-> "missing", text |-> <<>>]]

\* the translations are integrated; the draft is reassembled and parsed
\* again for the review
IntegrateTranslations ==
    /\ validator.pc = "translated"
    /\ \E draft_lines \in {integrate_translations(validator.parsed_lines,
                                validator.translations, validator.indices,
                                validator.keys_to_translate,
                                validator.source_translations)} :
           validator' = [validator EXCEPT
               !.pc = "review",
               !.draft_lines = draft_lines,
               !.draft_translations =
                   translations_of(parse_properties_file(reassemble_file(draft_lines)))]

\* the reviews of all chunks are gathered and merged; an exception of one
\* review leaves the function
ReviewChunks ==
    /\ validator.pc = "review"
    /\ \E chunks \in {key_chunks_of(validator.keys_to_translate,
                                     HOLISTIC_REVIEW_CHUNK_SIZE)} :
       \E review_results \in
              [1..Len(chunks) ->
                  IF validator.DRY_RUN
                  THEN {[kind |-> "dict", corrections |-> <<>>]}
                  ELSE QuoteReviewOutcomes] :
           validator' =
               IF \E c \in 1..Len(chunks) : review_results[c].kind = "raise"
               THEN [validator EXCEPT !.pc = "aborted",
                                      !.review_results = review_results]
               ELSE [validator EXCEPT
                        !.pc = "corrected",
                        !.review_results = review_results,
                        !.final_corrected_translations =
                            final_corrected_translations_of(review_results, chunks,
                                validator.draft_translations)]

SpecQuoteInit ==
    /\ QuoteInit
    /\ parser = Idle /\ sync = Idle /\ extraction = Idle
    /\ ledger_io = Idle /\ queue = Idle

SpecQuoteNext ==
    \/ IntegrateTranslations /\ UNCHANGED <<parser, sync, extraction, ledger_io, queue>>
    \/ ReviewChunks /\ UNCHANGED <<parser, sync, extraction, ledger_io, queue>>
    \/ ApplyCorrections /\ UNCHANGED <<parser, sync, extraction, ledger_io, queue>>
    \/ PerKeyValidation /\ UNCHANGED <<parser, sync, extraction, ledger_io, queue>>
    \/ WriteTranslatedFile /\ UNCHANGED <<parser, sync, extraction, ledger_io, queue>>

SpecQuote == SpecQuoteInit /\ [][SpecQuoteNext]_vars

\* every single quote of the text stands in a run of even length
QuotesDoubled(v) ==
    \A i \in 1..Len(v) :
        v[i] = "'" =>
            LET lo == Min({j \in 1..i : \A m \in j..i : v[m] = "'"})
                hi == Max({j \in i..Len(v) : \A m \in i..j : v[m] = "'"})
            IN  (hi - lo + 1) % 2 = 0

\* the keys sent for translation whose written value is a translation, not
\* the source value restored by the validation
TranslatedKeys ==
    {validator.keys_to_translate[i] : i \in 1..Len(validator.keys_to_translate)}
        \ {validator.failed_keys[i] : i \in 1..Len(validator.failed_keys)}

\* C29: in the written file every translated key whose source value has a
\* placeholder has each single quote of its value doubled, whether the
\* value came from the translation or from the review, and every
\* translated key whose source value has no placeholder has its value
\* with the single quotes as they were returned.
WrittenQuotesEscaped ==
    (validator.pc = "written" /\ validator.translated_file.state = "text") =>
        LET written == translations_of(parse_properties_file(
                           validator.translated_file.text))
        IN  \A k \in TranslatedKeys :
                /\ k \in DOMAIN written
                /\ IF placeholder_findall(validator.source_translations[k]) # <<>>
                   THEN QuotesDoubled(written[k])
                   ELSE written[k] = get(validator.final_corrected_translations, k,
                                         validator.draft_translations[k])

\* the same property for the runs in which no review returned a correction
WrittenQuotesEscapedWithoutCorrections ==
    (validator.pc = "written"
        /\ \A k \in DOMAIN validator.final_corrected_translations :
               validator.final_corrected_translations[k]
                   = get(validator.draft_translations, k, <<>>))
        => WrittenQuotesEscaped

\* the keys of the chunks whose review returned None or no corrections
KeysOfUncorrectedChunks ==
    LET chunks == key_chunks_of(validator.keys_to_translate,
                                HOLISTIC_REVIEW_CHUNK_SIZE)
    IN  UNION {{chunks[c][i] : i \in 1..Len(chunks[c])} :
                  c \in {d \in 1..Len(validator.review_results) :
                            /\ validator.review_results[d].kind \in {"None", "dict"}
                            /\ DOMAIN validator.review_results[d].corrections = {}}}

\* C30: a review that fails or returns no corrections for a chunk never
\* prevents the file from being written, and every key of that chunk that
\* passes validation has its draft translation in the written file,
\* whatever the reviews of the other chunks returned.
ReviewFailureFallsBack ==
    /\ validator.pc # "aborted"
    /\ (validator.pc = "written" /\ ~validator.DRY_RUN) =>
          /\ validator.translated_file.state = "text"
          /\ LET written == translations_of(parse_properties_file(
                                validator.translated_file.text))
             IN  \A k \in KeysOfUncorrectedChunks \cap TranslatedKeys :
                     k \in DOMAIN written
                         /\ written[k] = validator.draft_translations[k]

\* the same property for the runs in which every review returned None or
\* no corrections
ReviewFailureFallsBackWithoutCorrections ==
    (\A c \in 1..Len(validator.review_results) :
        /\ validator.review_results[c].kind \in {"None", "dict"}
        /\ DOMAIN validator.review_results[c].corrections = {})
        => ReviewFailureFallsBack

\* a review that does not raise never prevents the write
ReviewWithoutExceptionIsWritten ==
    (validator.pc = "written" /\ ~validator.DRY_RUN)
        => validator.translated_file.state = "text"

====
